---- MODULE Spec2Model ----
(***************************************************************************)
(* EasyWork graph runtime (src/src/runtime/core.h): the Node base class,   *)
(* the per-node dispatcher BaseNode::RunDispatch / RunSourceLoop, the      *)
(* Taskflow pass loop of Executor::run and the example nodes of the        *)
(* typed-node module.  One node task is one atomic action: a task runs on  *)
(* one worker from start to end, and tasks of one pass are ordered only by *)
(* the precedence edges installed by connect.                              *)
(***************************************************************************)
EXTENDS Integers, Sequences, FiniteSets, TLC

VARIABLES
    cls,                      \* node -> C++ class of the node (fixed at construction)
    upstreams,                \* Node::upstreams_ (port_map_ runs parallel to it)
    port_buffers,             \* Node::port_buffers_
    method_configs,           \* Node::method_configs_
    method_order,             \* Node::method_order_
    method_order_customized,  \* Node::method_order_customized_
    output_packet,            \* Node::output_packet_
    priv,                     \* the private fields of the derived node classes
    tasks,                    \* nodes that own a task of the taskflow (build)
    edges,                    \* precedence edges <<upstream, downstream>> (connect)
    keep_running,             \* ExecutionGraph::keep_running
    pc,                       \* position of Executor::run
    done,                     \* tasks finished in the running pass
    passes,                   \* passes started by this run
    clock,                    \* last value handed out by Packet::NowNs
    trace_all,                \* history switch: calls and drops are kept for the whole run
    calls,                    \* history: the invocations each node's dispatcher made
    pass_calls,               \* history: the invocations of each node's latest pass
    attempts,                 \* history: methods iterated by the last dispatch pass
    drops,                    \* history: packets removed by DropEarliest, per node
    arrivals,                 \* history: packets appended to a port since its method last ran
    sync_dropped,             \* history: a sync drop hit the port since its method last ran
    stop_pass,                \* history: pass in which Stop was first called (0: never)
    opened,                   \* Node::opened_
    life_calls,               \* history: the Open / Close calls of the latest lifecycle call
    raised,                   \* the exception the latest API call left with ("" if none)
    api_call,                 \* history: the latest lifecycle or assembly call and its arguments
    taskflow,                 \* content of ExecutionGraph::taskflow, and the nodes connect ran on
    registries                \* the process-global registries: converters, tuples, factories

nodeVars == <<cls, upstreams, port_buffers, method_configs, method_order,
              method_order_customized, output_packet, priv>>
graphVars == <<tasks, edges, keep_running>>
execVars == <<pc, done, passes, clock>>
histVars == <<trace_all, calls, pass_calls, attempts, drops, arrivals, sync_dropped, stop_pass>>
lifeVars == <<opened, life_calls, raised, api_call>>
globalVars == <<taskflow, registries>>
vars == <<nodeVars, graphVars, execVars, histVars, lifeVars, globalVars>>

----------------------------------------------------------------------------
(* Bounds of the model *)

MaxPasses == 4      \* passes one run may start
MaxPorts == 3       \* upstream connections of the node under configuration
MaxNames == 2       \* names in one set_method_order call
MaxList == 2        \* nodes in one list handed to Executor::open / close
MaxQueue == 2       \* largest queue size set_method_queue_size is called with

----------------------------------------------------------------------------
(* Sequences *)

Last(s) == s[Len(s)]

Front(s) == SubSeq(s, 1, Len(s) - 1)

Contains(s, x) == \E i \in 1..Len(s) : s[i] = x

IndexOf(s, x) == CHOOSE i \in 1..Len(s) : s[i] = x /\ \A j \in 1..(i - 1) : s[j] # x

\* the elements of s that differ from x, in order (std::remove + erase)
Without(s, x) == SelectSeq(s, LAMBDA y : y # x)

LastK(s, k) == IF Len(s) <= k THEN s ELSE SubSeq(s, Len(s) - k + 1, Len(s))

\* F(v), with v evaluated once before F is applied
Apply(F(_), v) == CHOOSE y \in {F(x) : x \in {v}} : TRUE

----------------------------------------------------------------------------
(* Method ids.  hash_string is injective on the method names in use, so an *)
(* id is modelled by the name it hashes.                                   *)

ID_FORWARD == "forward"
ID_OPEN == "Open"
ID_CLOSE == "Close"

\* Node::add_upstream / SetMethodOrder / SetMethodSync / SetMethodQueueSize:
\* the empty name and "forward" both denote ID_FORWARD
MethodId(name) == IF name = "" \/ name = "forward" THEN ID_FORWARD ELSE name

----------------------------------------------------------------------------
(* Packets: a typed payload and a timestamp.  The payload is flattened:    *)
(* i carries an int (or the numerator of a double, or element 0 of the     *)
(* tuple<int,string>), d the denominator of a double, s a string (or       *)
(* element 1 of the tuple).                                                *)

Empty == [has |-> FALSE, t |-> "void", i |-> 0, d |-> 1, s |-> "", ts |-> 0]

IntPkt(v, ts) == [has |-> TRUE, t |-> "int", i |-> v, d |-> 1, s |-> "", ts |-> ts]

StrPkt(v, ts) == [has |-> TRUE, t |-> "string", i |-> 0, d |-> 1, s |-> v, ts |-> ts]

TuplePkt(v, w, ts) == [has |-> TRUE, t |-> "tuple", i |-> v, d |-> 1, s |-> w, ts |-> ts]

RECURSIVE Gcd(_, _)
Gcd(a, b) == IF b = 0 THEN a ELSE Gcd(b, a % b)

Abs(a) == IF a < 0 THEN -a ELSE a

\* the double a / b as a reduced fraction with positive denominator
DoublePkt(a, b, ts) ==
    LET g == Gcd(Abs(a), Abs(b))
        sg == IF b < 0 THEN -1 ELSE 1
    IN  [has |-> TRUE, t |-> "double", i |-> sg * (a \div g), d |-> Abs(b) \div g,
         s |-> "", ts |-> ts]

Stamp(p, ts) == [p EXCEPT !.ts = ts]

Digit(k) ==
    CASE k = 0 -> "0" [] k = 1 -> "1" [] k = 2 -> "2" [] k = 3 -> "3" [] k = 4 -> "4"
      [] k = 5 -> "5" [] k = 6 -> "6" [] k = 7 -> "7" [] k = 8 -> "8" [] k = 9 -> "9"

RECURSIVE NatToString(_)
NatToString(k) == IF k < 10 THEN Digit(k) ELSE NatToString(k \div 10) \o Digit(k % 10)

\* std::to_string(int)
ToStdString(k) == IF k < 0 THEN "-" \o NatToString(-k) ELSE NatToString(k)

----------------------------------------------------------------------------
(* The node classes and their method registries (EW_ENABLE_METHODS).       *)
(* "Feeder" stands for a user-defined Node subclass outside BaseNode, whose *)
(* task stores the next packet of its feed in the public output_packet_.   *)
(* "Session" stands for a user-defined BaseNode subclass that overrides the *)
(* lifecycle hooks: it registers forward(int) -> int, Open() and Close().   *)
(* "Halver" stands for one whose forward takes a double: forward(double)    *)
(* -> double.                                                              *)

Classes == {"NumberSource", "MultiplyBy", "IntToText", "PrefixText", "PairEmitter",
            "PairJoiner", "TupleGet0", "TupleGet1", "MethodDispatchRecorder",
            "MixedNode", "Feeder", "Session", "Halver", "TestNode"}

Sig(args, ret) == [args |-> args, ret |-> ret]

\* Derived::method_registry(): method id -> (argument types, return type)
method_registry(c) ==
    CASE c = "NumberSource" -> [m \in {"forward"} |-> Sig(<<>>, "int")]
      [] c = "MultiplyBy" -> [m \in {"forward"} |-> Sig(<<"int">>, "int")]
      [] c = "IntToText" -> [m \in {"forward"} |-> Sig(<<"int">>, "string")]
      [] c = "PrefixText" -> [m \in {"forward"} |-> Sig(<<"string">>, "string")]
      [] c = "PairEmitter" -> [m \in {"forward"} |-> Sig(<<>>, "tuple")]
      [] c = "PairJoiner" -> [m \in {"forward"} |-> Sig(<<"int", "string">>, "string")]
      [] c = "TupleGet0" -> [m \in {"forward"} |-> Sig(<<"tuple">>, "int")]
      [] c = "TupleGet1" -> [m \in {"forward"} |-> Sig(<<"tuple">>, "string")]
      [] c = "MethodDispatchRecorder" ->
            [m \in {"forward", "left", "right"} |-> Sig(<<"int">>, "int")]
      [] c = "MixedNode" ->
            [m \in {"forward", "set_string", "compute_ratio"} |->
                CASE m = "forward" -> Sig(<<"int">>, "int")
                  [] m = "set_string" -> Sig(<<"string">>, "void")
                  [] m = "compute_ratio" -> Sig(<<"int", "int">>, "double")]
      [] c = "Feeder" -> [m \in {} |-> Sig(<<>>, "void")]
      [] c = "Session" ->
            [m \in {"forward", "Open", "Close"} |->
                IF m = "forward" THEN Sig(<<"int">>, "int") ELSE Sig(<<>>, "void")]
      [] c = "Halver" -> [m \in {"forward"} |-> Sig(<<"double">>, "double")]
      [] c = "TestNode" ->
            [m \in {"add", "set_val", "get_val"} |->
                CASE m = "add" -> Sig(<<"int", "int">>, "int")
                  [] m = "set_val" -> Sig(<<"int">>, "void")
                  [] m = "get_val" -> Sig(<<>>, "int")]
      [] c = "SteppedSource" ->
            [m \in {"forward", "set_step"} |->
                IF m = "forward" THEN Sig(<<>>, "int") ELSE Sig(<<"int">>, "void")]
      [] c = "SyncBarrier" -> [m \in {} |-> Sig(<<>>, "void")]

\* the private fields of all node classes, at their constructed values
Fields == [current_ |-> 0, max_ |-> 0, step_ |-> 0, factor_ |-> 0, prefix_ |-> "",
           length_ |-> 0, left_ready_ |-> FALSE, right_ready_ |-> FALSE,
           order_error_count |-> 0, feed |-> <<>>, pos |-> 0, free |-> {}, stops |-> FALSE,
           ready_ |-> FALSE, val_ |-> 0, buffers_ |-> <<>>, tolerance_ns_ |-> 0]

NewNumberSource(start, max, step) ==
    [Fields EXCEPT !.current_ = start, !.max_ = max, !.step_ = step]

NewMultiplyBy(factor) == [Fields EXCEPT !.factor_ = factor]

NewPrefixText(prefix) == [Fields EXCEPT !.prefix_ = prefix]

NewPairEmitter(start, max) == [Fields EXCEPT !.current_ = start, !.max_ = max]

\* a feeder that emits the packets of feed, one per pass, and afterwards in each
\* pass any packet of free or nothing; with stops it calls Stop in the pass that
\* emits the last packet of feed, or in any later pass; like a source it stamps
\* a packet that carries no timestamp, here with the number of the pass
\* SyncBarrier<InputTs...>(tolerance_ns): one empty buffer per input type
NewSyncBarrier(inputs, tolerance_ns) ==
    [Fields EXCEPT !.buffers_ = [i \in 1..inputs |-> <<>>], !.tolerance_ns_ = tolerance_ns]

NewFeeder(feed, free, stops) == [Fields EXCEPT !.feed = feed, !.free = free, !.stops = stops]

Outcome(p, ret, stop) == [priv |-> p, ret |-> ret, stop |-> stop]

\* a source that treats max as exclusive: what NumberSource::forward is not
NumberSource_exclusive(p) ==
    IF p.current_ >= p.max_
    THEN Outcome(p, IntPkt(0, 0), TRUE)
    ELSE Outcome([p EXCEPT !.current_ = p.current_ + p.step_],
                 IntPkt(p.current_, 0), p.current_ + p.step_ >= p.max_)

\* NumberSource::forward
NumberSource_forward(p) ==
    IF p.current_ > p.max_
    THEN Outcome(p, IntPkt(0, 0), TRUE)
    ELSE Outcome([p EXCEPT !.current_ = p.current_ + p.step_],
                 IntPkt(p.current_, 0), p.current_ >= p.max_)

\* MultiplyBy::forward
\* a source that exports a control method beside its parameter-less forward:
\* forward() returns the counter and advances it, set_step(int) sets the step
SteppedSource_method(m, p, a) ==
    IF m = "forward"
    THEN Outcome([p EXCEPT !.current_ = p.current_ + p.step_], IntPkt(p.current_, 0), FALSE)
    ELSE Outcome([p EXCEPT !.step_ = a[1].i], Empty, FALSE)

MultiplyBy_forward(p, a) == Outcome(p, IntPkt(a[1].i * p.factor_, 0), FALSE)

\* IntToText::forward
IntToText_forward(p, a) == Outcome(p, StrPkt(ToStdString(a[1].i), 0), FALSE)

\* PrefixText::forward
PrefixText_forward(p, a) == Outcome(p, StrPkt(p.prefix_ \o a[1].s, 0), FALSE)

\* PairEmitter::forward
PairEmitter_forward(p) ==
    IF p.current_ > p.max_
    THEN Outcome(p, TuplePkt(0, "", 0), TRUE)
    ELSE Outcome([p EXCEPT !.current_ = p.current_ + 1],
                 TuplePkt(p.current_, "value_" \o ToStdString(p.current_), 0),
                 p.current_ >= p.max_)

\* PairJoiner::forward
PairJoiner_forward(p, a) ==
    Outcome(p, StrPkt(a[2].s \o ":" \o ToStdString(a[1].i), 0), FALSE)

\* TupleGetNode<Index, tuple<int, string>>::forward
TupleGet_forward(index, p, a) ==
    Outcome(p, IF index = 0 THEN IntPkt(a[1].i, 0) ELSE StrPkt(a[1].s, 0), FALSE)

\* MethodDispatchRecorder::forward / left / right
Recorder_forward(p, a) ==
    Outcome([p EXCEPT !.order_error_count =
                          IF ~p.left_ready_ \/ ~p.right_ready_ THEN @ + 1 ELSE @,
                      !.left_ready_ = FALSE, !.right_ready_ = FALSE],
            IntPkt(a[1].i, 0), FALSE)

Recorder_left(p, a) == Outcome([p EXCEPT !.left_ready_ = TRUE], IntPkt(a[1].i, 0), FALSE)

Recorder_right(p, a) == Outcome([p EXCEPT !.right_ready_ = TRUE], IntPkt(a[1].i, 0), FALSE)

\* MixedNode::forward / set_string / compute_ratio
MixedNode_forward(p, a) == Outcome(p, IntPkt(a[1].i + p.length_, 0), FALSE)

MixedNode_set_string(p, a) == Outcome([p EXCEPT !.length_ = Len(a[1].s)], Empty, FALSE)

MixedNode_compute_ratio(p, a) ==
    Outcome(p, IF a[2].i = 0 THEN DoublePkt(0, 1, 0) ELSE DoublePkt(a[1].i, a[2].i, 0), FALSE)

\* Session::forward / Open / Close: the hooks acquire and release a resource
Session_method(m, p, a) ==
    CASE m = "forward" -> Outcome(p, IntPkt(a[1].i, 0), FALSE)
      [] m = "Open" -> Outcome([p EXCEPT !.ready_ = TRUE], Empty, FALSE)
      [] m = "Close" -> Outcome([p EXCEPT !.ready_ = FALSE], Empty, FALSE)

\* Halver::forward: half of its argument
Halver_forward(p, a) == Outcome(p, DoublePkt(a[1].i, 2 * a[1].d, 0), FALSE)

\* TestNode::add / set_val / get_val of the invoker test
TestNode_method(m, p, a) ==
    CASE m = "add" -> Outcome(p, IntPkt(a[1].i + a[2].i, 0), FALSE)
      [] m = "set_val" -> Outcome([p EXCEPT !.val_ = a[1].i], Empty, FALSE)
      [] m = "get_val" -> Outcome(p, IntPkt(p.val_, 0), FALSE)

\* the member function behind registry entry (c, m), applied to cast arguments
MethodBody(c, m, p, a) ==
    CASE c = "NumberSource" -> NumberSource_forward(p)
      [] c = "MultiplyBy" -> MultiplyBy_forward(p, a)
      [] c = "IntToText" -> IntToText_forward(p, a)
      [] c = "PrefixText" -> PrefixText_forward(p, a)
      [] c = "PairEmitter" -> PairEmitter_forward(p)
      [] c = "PairJoiner" -> PairJoiner_forward(p, a)
      [] c = "TupleGet0" -> TupleGet_forward(0, p, a)
      [] c = "TupleGet1" -> TupleGet_forward(1, p, a)
      [] c = "MethodDispatchRecorder" /\ m = "forward" -> Recorder_forward(p, a)
      [] c = "MethodDispatchRecorder" /\ m = "left" -> Recorder_left(p, a)
      [] c = "MethodDispatchRecorder" /\ m = "right" -> Recorder_right(p, a)
      [] c = "MixedNode" /\ m = "forward" -> MixedNode_forward(p, a)
      [] c = "MixedNode" /\ m = "set_string" -> MixedNode_set_string(p, a)
      [] c = "MixedNode" /\ m = "compute_ratio" -> MixedNode_compute_ratio(p, a)
      [] c = "Session" -> Session_method(m, p, a)
      [] c = "Halver" -> Halver_forward(p, a)
      [] c = "TestNode" -> TestNode_method(m, p, a)
      [] c = "SteppedSource" -> SteppedSource_method(m, p, a)

\* a cast that accepts a packet of any type
CastAny(pkt, type) == pkt.has

\* Packet::cast<T> succeeds only on a valued packet of exactly type T
CastOk(pkt, type) == pkt.has /\ pkt.t = type

\* an invoker that checks the argument count, runs the method on the packets
\* as they are and reports a failed cast afterwards
InvokerRunsFirst(c, m, p, inputs) ==
    LET sig == method_registry(c)[m] IN
    IF Len(inputs) # Len(sig.args)
    THEN [ok |-> FALSE, priv |-> p, ret |-> Empty, stop |-> FALSE]
    ELSE LET o == MethodBody(c, m, p, inputs)
         IN  [ok |-> \A k \in 1..Len(inputs) : CastOk(inputs[k], sig.args[k]),
              priv |-> o.priv, ret |-> IF sig.ret = "void" THEN Empty ELSE o.ret,
              stop |-> o.stop]

\* CreateInvoker + detail::InvokeImpl: the argument count is checked, every
\* argument is cast, then the method runs; a void method yields Packet::Empty().
\* ok = FALSE stands for the std::runtime_error thrown before the method runs.
Invoker(c, m, p, inputs) ==
    LET sig == method_registry(c)[m] IN
    IF Len(inputs) # Len(sig.args)
        \/ \E k \in 1..Len(inputs) : ~CastOk(inputs[k], sig.args[k])
    THEN [ok |-> FALSE, priv |-> p, ret |-> Empty, stop |-> FALSE]
    ELSE LET o == MethodBody(c, m, p, inputs)
         IN  [ok |-> TRUE, priv |-> o.priv,
              ret |-> IF sig.ret = "void" THEN Empty ELSE o.ret, stop |-> o.stop]

----------------------------------------------------------------------------
(* Node: method order, method configuration, connections                   *)

\* a method order left as it was written: what Node::EnsureForwardLast prevents
KeepMethodOrder(order) == order

\* Node::EnsureForwardLast
EnsureForwardLast(order) ==
    LET rest == Without(order, ID_FORWARD)
    IN  IF rest # <<>> THEN Append(rest, ID_FORWARD) ELSE rest

\* registration in connection order: what Node::RegisterMethodOrder prevents
AppendMethodOrder(order, id) == IF Contains(order, id) THEN order ELSE Append(order, id)

\* Node::RegisterMethodOrder
RegisterMethodOrder(order, id) ==
    IF Contains(order, id) THEN order
    ELSE IF id = ID_FORWARD THEN Append(order, id)
    ELSE IF ~Contains(order, ID_FORWARD) THEN EnsureForwardLast(Append(order, id))
    ELSE LET f == IndexOf(order, ID_FORWARD)
         IN  EnsureForwardLast(SubSeq(order, 1, f - 1) \o <<id>> \o SubSeq(order, f, Len(order)))

RECURSIVE Dedup(_, _)
\* the loop of Node::SetMethodOrder: each id is pushed unless already present
Dedup(names, acc) ==
    IF names = <<>> THEN acc
    ELSE LET id == MethodId(Head(names))
         IN  Dedup(Tail(names), IF Contains(acc, id) THEN acc ELSE Append(acc, id))

\* a set_method_order that keeps the names in reverse list order
OrderReversed(names) ==
    EnsureForwardLast(Dedup([k \in 1..Len(names) |-> names[Len(names) + 1 - k]], <<>>))

\* Node::SetMethodOrder: the new method_order_
OrderFromNames(names) == EnsureForwardLast(Dedup(names, <<>>))

\* Node::EffectiveMethodOrder
EffectiveMethodOrder(order) == IF order # <<>> THEN order ELSE <<ID_FORWARD>>

\* Node::MethodConfig, default-constructed
DefaultConfig == [sync_enabled |-> FALSE, max_queue |-> 0]

\* Node::GetMethodConfig
GetMethodConfig(cfgs, id) == IF id \in DOMAIN cfgs THEN cfgs[id] ELSE DefaultConfig

\* method_configs_[id], which creates the default entry when id is absent
ConfigEntry(cfgs, id, c) == [k \in DOMAIN cfgs \cup {id} |-> IF k = id THEN c ELSE cfgs[k]]

\* Node::SetMethodSync: the new method_configs_
WithMethodSync(cfgs, method, enabled) ==
    ConfigEntry(cfgs, MethodId(method),
                [GetMethodConfig(cfgs, MethodId(method)) EXCEPT !.sync_enabled = enabled])

\* Node::SetMethodQueueSize: the new method_configs_
WithMethodQueueSize(cfgs, method, max_queue) ==
    ConfigEntry(cfgs, MethodId(method),
                [GetMethodConfig(cfgs, MethodId(method)) EXCEPT !.max_queue = max_queue])

\* the ports bound to method_id taken from the last connection to the first
PortsDescending(ups, method_id) ==
    LET asc == SelectSeq([i \in 1..Len(ups) |-> i], LAMBDA i : ups[i].method_id = method_id)
    IN  [k \in 1..Len(asc) |-> asc[Len(asc) + 1 - k]]

\* Node::PortsForMethod: the indices of the ports bound to method_id, ascending
PortsForMethod(ups, method_id) ==
    SelectSeq([i \in 1..Len(ups) |-> i], LAMBDA i : ups[i].method_id = method_id)

\* Node::PortsHaveData
PortsHaveData(bufs, ports) ==
    \A k \in 1..Len(ports) : ~(ports[k] > Len(bufs) \/ bufs[ports[k]] = <<>>)

FrontTs(bufs, ports) == {Head(bufs[ports[k]]).ts : k \in 1..Len(ports)}

\* Node::MinTimestamp (the timestamps of the model stay below INT64_MAX)
MinTimestamp(bufs, ports) ==
    IF ports = <<>> THEN 0
    ELSE CHOOSE t \in FrontTs(bufs, ports) : \A u \in FrontTs(bufs, ports) : t <= u

\* Node::MaxTimestamp: the running maximum starts at 0
MaxTimestamp(bufs, ports) ==
    CHOOSE t \in FrontTs(bufs, ports) \cup {0} : \A u \in FrontTs(bufs, ports) \cup {0} : t >= u

\* the ports DropEarliest pops: non-empty with front timestamp min_ts
EarliestPorts(bufs, ports, min_ts) ==
    {ports[k] : k \in {j \in 1..Len(ports) :
                          bufs[ports[j]] # <<>> /\ Head(bufs[ports[j]]).ts = min_ts}}

\* a misaligned method that keeps all of its packets: Node::DropEarliest left out
DropNothing(bufs, ports, min_ts) == bufs

\* a drop that pops the later fronts and keeps the earliest
DropLatest(bufs, ports, min_ts) ==
    [i \in 1..Len(bufs) |->
        IF (\E k \in 1..Len(ports) : ports[k] = i) /\ bufs[i] # <<>> /\ Head(bufs[i]).ts # min_ts
        THEN Tail(bufs[i]) ELSE bufs[i]]

\* a drop that pops the front of every port of the method
DropEveryFront(bufs, ports, min_ts) ==
    [i \in 1..Len(bufs) |->
        IF \E k \in 1..Len(ports) : ports[k] = i THEN Tail(bufs[i]) ELSE bufs[i]]

\* Node::DropEarliest
DropEarliest(bufs, ports, min_ts) ==
    [i \in 1..Len(bufs) |->
        IF i \in EarliestPorts(bufs, ports, min_ts) THEN Tail(bufs[i]) ELSE bufs[i]]

\* Node::EnsurePortBufferSize
EnsurePortBufferSize(bufs, ups) ==
    IF Len(bufs) < Len(ups)
    THEN bufs \o [i \in 1..(Len(ups) - Len(bufs)) |-> <<>>]
    ELSE bufs

\* a full queue that refuses the new packet instead of dropping the oldest one
PushDroppingNewest(buf, pkt, max_queue) ==
    IF max_queue > 0 /\ Len(buf) >= max_queue THEN buf ELSE Append(buf, pkt)

\* the push and trim of Node::BufferPortInputs on one port
PushBounded(buf, pkt, max_queue) ==
    IF max_queue > 0 THEN LastK(Append(buf, pkt), max_queue) ELSE Append(buf, pkt)

\* a buffering that pushes the output slot of the upstream whatever it holds
BufferEveryOutput(ups, bufs, cfgs, out) ==
    [i \in 1..Len(bufs) |->
        IF i <= Len(ups)
        THEN PushBounded(bufs[i], out[ups[i].node],
                         GetMethodConfig(cfgs, ups[i].method_id).max_queue)
        ELSE bufs[i]]

\* Node::BufferPortInputs: out is the output slot of every node
BufferPortInputs(ups, bufs, cfgs, out) ==
    [i \in 1..Len(bufs) |->
        IF i <= Len(ups) /\ out[ups[i].node].has
        THEN PushBounded(bufs[i], out[ups[i].node],
                         GetMethodConfig(cfgs, ups[i].method_id).max_queue)
        ELSE bufs[i]]

----------------------------------------------------------------------------
(* BaseNode::RunDispatch.  The running state r of one pass: the port       *)
(* buffers, the node's private fields, the output slot, output_produced,   *)
(* whether an exception ended the pass, and whether Stop was called; plus  *)
(* the history of the pass (calls made, methods iterated, packets dropped, *)
(* ports hit by a sync drop).                                              *)

\* a sync test that lets every set of fronts pass
NeverMisaligned(bufs, ports) == FALSE

\* the sync test of RunDispatch: the fronts are misaligned
Misaligned(bufs, ports) == MaxTimestamp(bufs, ports) # MinTimestamp(bufs, ports)

\* an output handling that drops what the method returned
DiscardResult(result, inputs) == Empty

\* "Propagate timestamp if needed": a valued result with timestamp 0 inherits
\* the timestamp of the first argument
PropagateTimestamp(result, inputs) ==
    IF result.ts = 0 /\ inputs # <<>> THEN Stamp(result, inputs[1].ts) ELSE result

\* one invocation; wrote: "if (result.has_value()) output_packet_ = result"
CallRecord(m, inputs, result, sync, pass) ==
    [m |-> m, args |-> inputs, ret |-> result, sync |-> sync, pass |-> pass,
     wrote |-> result.has]

\* a collection that takes everything the ports of the method hold
PopEverything(bufs, ports) ==
    [i \in 1..Len(bufs) |->
        IF \E k \in 1..Len(ports) : ports[k] = i THEN <<>> ELSE bufs[i]]

\* "port_buffers_[idx].pop_front()" for every port of the method
PopFronts(bufs, ports) ==
    [i \in 1..Len(bufs) |->
        IF \E k \in 1..Len(ports) : ports[k] = i THEN Tail(bufs[i]) ELSE bufs[i]]

\* a failure after which the port buffers are as they were before the
\* arguments were collected
FailedCallPutBack(r, popped) == [r EXCEPT !.failed = TRUE]

\* the invoker throws: the arguments were popped before the call, and the
\* catch of RunDispatch restores nothing
FailedCall(r, popped) == [r EXCEPT !.bufs = popped, !.failed = TRUE]

\* one iteration of the method loop of RunDispatch, for method_id m of a node
\* of class c with connections ups and configuration cfgs
MethodStep(c, ups, cfgs, pass, m, r0) ==
    LET r == [r0 EXCEPT !.tried = Append(@, m)]
        ports == PortsForMethod(ups, m)
        registry == method_registry(c)
        config == GetMethodConfig(cfgs, m)
    IN
    IF m \notin DOMAIN registry THEN r
    ELSE IF Len(ports) # Len(registry[m].args) THEN r
    ELSE IF config.sync_enabled /\ ~PortsHaveData(r.bufs, ports) THEN r
    ELSE IF config.sync_enabled /\ Misaligned(r.bufs, ports)
    THEN LET min_ts == MinTimestamp(r.bufs, ports)
             hit == EarliestPorts(r.bufs, ports, min_ts)
         IN  [r EXCEPT !.bufs = DropEarliest(r.bufs, ports, min_ts),
                       !.dropped = @ \o [k \in 1..Len(SelectSeq(ports, LAMBDA i : i \in hit)) |->
                                            Head(r.bufs[SelectSeq(ports, LAMBDA i : i \in hit)[k]])],
                       !.dropports = @ \cup hit]
    ELSE IF ~PortsHaveData(r.bufs, ports) THEN r
    ELSE LET inputs == [k \in 1..Len(ports) |-> Head(r.bufs[ports[k]])]
             popped == PopFronts(r.bufs, ports)
             res == Invoker(c, m, r.priv, inputs)
         IN  IF ~res.ok
             THEN FailedCall(r, popped)
             ELSE [r EXCEPT !.bufs = popped,
                            !.priv = res.priv,
                            !.stop = @ \/ res.stop,
                            !.out = IF res.ret.has
                                    THEN PropagateTimestamp(res.ret, inputs) ELSE @,
                            !.produced = @ \/ res.ret.has,
                            !.called = Append(@, CallRecord(m, inputs,
                                                            PropagateTimestamp(res.ret, inputs),
                                                            config.sync_enabled, pass)),
                            !.invoked = @ \cup {m}]

RECURSIVE MethodLoop(_, _, _, _, _, _, _)
\* "for (size_t method_id : order)": left when an exception is thrown
MethodLoop(c, ups, cfgs, pass, order, k, r) ==
    IF k > Len(order) \/ r.failed THEN r
    ELSE Apply(LAMBDA next : MethodLoop(c, ups, cfgs, pass, order, k + 1, next),
               MethodStep(c, ups, cfgs, pass, order[k], r))

\* a dispatch that leaves the output slot as the method loop left it, without
\* emptying it after an exception or after a pass that produced nothing
KeepStaleOutput(c, ups, bufs, cfgs, order, p, out, self_out, pass) ==
    MethodLoop(c, ups, cfgs, pass, EffectiveMethodOrder(order), 1,
               [bufs |-> BufferPortInputs(ups, EnsurePortBufferSize(bufs, ups), cfgs, out),
                priv |-> p, out |-> self_out, produced |-> FALSE, failed |-> FALSE,
                stop |-> FALSE, called |-> <<>>, tried |-> <<>>, dropped |-> <<>>,
                dropports |-> {}, invoked |-> {}])

\* BaseNode::RunDispatch on one node; out is the output slot of every node
RunDispatch(c, ups, bufs, cfgs, order, p, out, self_out, pass) ==
    LET buffered == BufferPortInputs(ups, EnsurePortBufferSize(bufs, ups), cfgs, out)
        r0 == [bufs |-> buffered, priv |-> p, out |-> self_out, produced |-> FALSE,
               failed |-> FALSE, stop |-> FALSE, called |-> <<>>, tried |-> <<>>,
               dropped |-> <<>>, dropports |-> {}, invoked |-> {}]
    IN  Apply(LAMBDA r : [r EXCEPT !.out = IF r.failed \/ ~r.produced THEN Empty ELSE @],
              Apply(LAMBDA start : MethodLoop(c, ups, cfgs, pass, EffectiveMethodOrder(order),
                                              1, start), r0))

\* BaseNode::RunSourceLoop; now is the value Packet::NowNs returns
RunSourceLoop(c, p, now) ==
    IF ID_FORWARD \notin DOMAIN method_registry(c)
    THEN [priv |-> p, out |-> Empty, stop |-> FALSE, ok |-> FALSE]
    ELSE LET res == Invoker(c, ID_FORWARD, p, <<>>)
         IN  IF ~res.ok
             THEN [priv |-> p, out |-> Empty, stop |-> FALSE, ok |-> FALSE]
             ELSE [priv |-> res.priv,
                   out |-> IF res.ret.has
                           THEN (IF res.ret.ts = 0 THEN Stamp(res.ret, now) ELSE res.ret)
                           ELSE Empty,
                   stop |-> res.stop, ok |-> TRUE]

\* BaseNode::build: is_source, forward is registered with no arguments
IsSource(c) ==
    ID_FORWARD \in DOMAIN method_registry(c) /\ method_registry(c)[ID_FORWARD].args = <<>>

----------------------------------------------------------------------------
(* The node tasks (the lambda BaseNode::build emplaces)                    *)

Nodes == DOMAIN cls

\* Node::Stop called by node n: a node that was never built has no graph_
StopTakesEffect(n, stop) == stop /\ n \in tasks

\* arrivals on the ports of n in a pass whose dispatcher ended in state r
ArrivalsAfter(n, r) ==
    [i \in 1..Len(upstreams[n]) |->
        IF upstreams[n][i].method_id \in r.invoked THEN <<>>
        ELSE IF output_packet[upstreams[n][i].node].has
        THEN Append(arrivals[n][i], output_packet[upstreams[n][i].node])
        ELSE arrivals[n][i]]

SyncDroppedAfter(n, r) ==
    [i \in 1..Len(upstreams[n]) |->
        IF upstreams[n][i].method_id \in r.invoked THEN FALSE
        ELSE sync_dropped[n][i] \/ i \in r.dropports]

\* the task of a node whose forward takes arguments (or that has no forward)
DispatchTask(n) ==
    \E r \in {RunDispatch(cls[n], upstreams[n], port_buffers[n], method_configs[n],
                           method_order[n], priv[n], output_packet, output_packet[n], passes)} :
        /\ port_buffers' = [port_buffers EXCEPT ![n] = r.bufs]
        /\ priv' = [priv EXCEPT ![n] = r.priv]
        /\ output_packet' = [output_packet EXCEPT ![n] = r.out]
        /\ keep_running' = IF StopTakesEffect(n, r.stop) THEN FALSE ELSE keep_running
        /\ calls' = [calls EXCEPT ![n] = IF trace_all THEN @ \o r.called ELSE @]
        /\ pass_calls' = [pass_calls EXCEPT ![n] = r.called]
        /\ attempts' = [attempts EXCEPT ![n] = r.tried]
        /\ drops' = [drops EXCEPT ![n] = IF trace_all THEN @ \o r.dropped ELSE @]
        /\ arrivals' = [arrivals EXCEPT ![n] = ArrivalsAfter(n, r)]
        /\ sync_dropped' = [sync_dropped EXCEPT ![n] = SyncDroppedAfter(n, r)]
        /\ stop_pass' = IF StopTakesEffect(n, r.stop) /\ stop_pass = 0 THEN passes ELSE stop_pass
        /\ UNCHANGED <<clock, trace_all, cls, upstreams, method_configs, method_order,
                       method_order_customized, tasks, edges, lifeVars, globalVars>>

\* the task of a source node
SourceTask(n) ==
    \E r \in {RunSourceLoop(cls[n], priv[n], clock + 1)} :
        /\ priv' = [priv EXCEPT ![n] = r.priv]
        /\ output_packet' = [output_packet EXCEPT ![n] = r.out]
        /\ clock' = IF r.ok THEN clock + 1 ELSE clock
        /\ keep_running' = IF StopTakesEffect(n, r.stop) THEN FALSE ELSE keep_running
        /\ calls' = [calls EXCEPT ![n] =
                        IF r.ok /\ trace_all
                        THEN Append(@, CallRecord(ID_FORWARD, <<>>, r.out, FALSE, passes))
                        ELSE @]
        /\ pass_calls' = [pass_calls EXCEPT ![n] =
                             IF r.ok THEN <<CallRecord(ID_FORWARD, <<>>, r.out, FALSE, passes)>>
                             ELSE <<>>]
        /\ stop_pass' = IF StopTakesEffect(n, r.stop) /\ stop_pass = 0 THEN passes ELSE stop_pass
        /\ UNCHANGED <<port_buffers, trace_all, attempts, drops, arrivals, sync_dropped, cls,
                       upstreams, method_configs, method_order, method_order_customized,
                       tasks, edges, lifeVars, globalVars>>

\* the task of a feeder: it stores pkt in its output slot
FeederTask(n) ==
    \E pkt \in (IF priv[n].pos < Len(priv[n].feed) THEN {priv[n].feed[priv[n].pos + 1]}
                ELSE priv[n].free \cup {Empty}) :
    \E halt \in (IF priv[n].pos < Len(priv[n].feed) THEN {priv[n].pos + 1 = Len(priv[n].feed)}
                 ELSE BOOLEAN) :
        LET stop == priv[n].stops /\ halt IN
        /\ output_packet' = [output_packet EXCEPT ![n] =
                                IF pkt.has /\ pkt.ts = 0 THEN Stamp(pkt, passes) ELSE pkt]
        /\ priv' = [priv EXCEPT ![n].pos = IF @ < Len(priv[n].feed) THEN @ + 1 ELSE @]
        /\ keep_running' = IF StopTakesEffect(n, stop) THEN FALSE ELSE keep_running
        /\ stop_pass' = IF StopTakesEffect(n, stop) /\ stop_pass = 0 THEN passes ELSE stop_pass
        /\ UNCHANGED <<port_buffers, clock, trace_all, calls, pass_calls, attempts, drops,
                       arrivals, sync_dropped, cls, upstreams, method_configs, method_order,
                       method_order_customized, tasks, edges, lifeVars, globalVars>>

----------------------------------------------------------------------------
(* SyncBarrier<int, std::string>: a Node outside BaseNode with its own     *)
(* buffers_ and its own task                                               *)

\* the InputTs of the barrier
SyncBarrier_InputTs == <<"int", "string">>

\* SyncBarrier::BufferInputs
SyncBarrier_BufferInputs(ups, bufs, out) ==
    [i \in 1..Len(bufs) |->
        IF i <= Len(ups) /\ out[ups[i].node].has
        THEN Append(bufs[i], out[ups[i].node]) ELSE bufs[i]]

\* SyncBarrier::BuffersReady
SyncBarrier_BuffersReady(bufs) ==
    bufs # <<>> /\ \A i \in 1..Len(bufs) : bufs[i] # <<>>

SyncBarrier_FrontTs(bufs) == {Head(bufs[i]).ts : i \in 1..Len(bufs)}

\* SyncBarrier::MinTimestamp
SyncBarrier_MinTimestamp(bufs) ==
    CHOOSE t \in SyncBarrier_FrontTs(bufs) : \A u \in SyncBarrier_FrontTs(bufs) : t <= u

\* SyncBarrier::MaxTimestamp: the running maximum starts at 0
SyncBarrier_MaxTimestamp(bufs) ==
    CHOOSE t \in SyncBarrier_FrontTs(bufs) \cup {0} :
        \A u \in SyncBarrier_FrontTs(bufs) \cup {0} : t >= u

\* SyncBarrier::DropEarlier
SyncBarrier_DropEarlier(bufs, min_ts) ==
    [i \in 1..Len(bufs) |->
        IF bufs[i] # <<>> /\ Head(bufs[i]).ts = min_ts THEN Tail(bufs[i]) ELSE bufs[i]]

\* SyncBarrier::BuildOutput: the fronts cast to InputTs and made a tuple
SyncBarrier_BuildOutput(bufs) == TuplePkt(Head(bufs[1]).i, Head(bufs[2]).s, 0)

\* SyncBarrier::PopAligned
SyncBarrier_PopAligned(bufs) ==
    [i \in 1..Len(bufs) |-> IF bufs[i] # <<>> THEN Tail(bufs[i]) ELSE bufs[i]]

\* a test that lets fronts of any distance pass
AnyGapAllowed(min_ts, max_ts, tolerance_ns) == TRUE

\* "if (max_ts - min_ts <= tolerance_ns_)"
WithinTolerance(min_ts, max_ts, tolerance_ns) == max_ts - min_ts <= tolerance_ns

RECURSIVE SyncBarrier_AlignAndEmit(_, _)
\* SyncBarrier::AlignAndEmit; thrown: a cast of BuildOutput failed
SyncBarrier_AlignAndEmit(bufs, tolerance_ns) ==
    IF ~SyncBarrier_BuffersReady(bufs)
    THEN [bufs |-> bufs, out |-> Empty, thrown |-> FALSE]
    ELSE IF WithinTolerance(SyncBarrier_MinTimestamp(bufs), SyncBarrier_MaxTimestamp(bufs),
                            tolerance_ns)
    THEN IF \A i \in 1..Len(bufs) : CastOk(Head(bufs[i]), SyncBarrier_InputTs[i])
         THEN [bufs |-> SyncBarrier_PopAligned(bufs),
               out |-> Stamp(SyncBarrier_BuildOutput(bufs), SyncBarrier_MaxTimestamp(bufs)),
               thrown |-> FALSE]
         ELSE [bufs |-> bufs, out |-> Empty, thrown |-> TRUE]
    ELSE SyncBarrier_AlignAndEmit(SyncBarrier_DropEarlier(bufs, SyncBarrier_MinTimestamp(bufs)),
                                  tolerance_ns)

\* the task SyncBarrier::build emplaces: BufferInputs, AlignAndEmit, and the
\* catch that empties the output slot
SyncBarrierTask(n) ==
    \E r \in {SyncBarrier_AlignAndEmit(
                  SyncBarrier_BufferInputs(upstreams[n], priv[n].buffers_, output_packet),
                  priv[n].tolerance_ns_)} :
        /\ priv' = [priv EXCEPT ![n].buffers_ = r.bufs]
        /\ output_packet' = [output_packet EXCEPT ![n] = r.out]
        /\ UNCHANGED <<port_buffers, keep_running, clock, histVars, cls, upstreams,
                       method_configs, method_order, method_order_customized, tasks, edges,
                       lifeVars, globalVars>>

TaskBody(n) ==
    IF cls[n] = "SyncBarrier" THEN SyncBarrierTask(n)
    ELSE IF cls[n] = "Feeder" THEN FeederTask(n)
    ELSE IF IsSource(cls[n]) THEN SourceTask(n)
    ELSE DispatchTask(n)

----------------------------------------------------------------------------
(* Executor::run: keep_running = true; while (keep_running) run the        *)
(* taskflow once and wait for it.                                          *)

\* a scheduler that ignores the precedence edges of the taskflow
RunnableInAnyOrder(n) == n \in tasks /\ n \notin done

\* a task may start once every task that precedes it has finished
Runnable(n) == n \in tasks /\ n \notin done /\ \A e \in edges : e[2] = n => e[1] \in done

\* an entry to Executor::run that leaves keep_running as it finds it
RunEnterKeepingFlag ==
    /\ pc = "idle"
    /\ pc' = "check"
    /\ UNCHANGED <<nodeVars, graphVars, done, passes, clock, histVars, lifeVars, globalVars>>

\* Executor::run is entered
RunEnter ==
    /\ pc = "idle"
    /\ keep_running' = TRUE
    /\ pc' = "check"
    /\ UNCHANGED <<nodeVars, tasks, edges, done, passes, clock, histVars, lifeVars, globalVars>>

\* a loop that starts the next pass without testing keep_running
StartPassRegardless ==
    /\ pc = "check"
    /\ passes < MaxPasses
    /\ pc' = "pass"
    /\ done' = {}
    /\ passes' = passes + 1
    /\ UNCHANGED <<nodeVars, graphVars, clock, histVars, lifeVars, globalVars>>

\* the loop test succeeds: executor.run(taskflow) starts a pass
StartPass ==
    /\ pc = "check"
    /\ keep_running
    /\ passes < MaxPasses
    /\ pc' = "pass"
    /\ done' = {}
    /\ passes' = passes + 1
    /\ UNCHANGED <<nodeVars, graphVars, clock, histVars, lifeVars, globalVars>>

\* one task of the running pass
TaskRun(n) ==
    /\ pc = "pass"
    /\ Runnable(n)
    /\ TaskBody(n)
    /\ done' = done \cup {n}
    /\ UNCHANGED <<pc, passes, lifeVars, globalVars>>

\* wait() returns: every task of the pass has finished
PassEnd ==
    /\ pc = "pass"
    /\ done = tasks
    /\ pc' = "check"
    /\ UNCHANGED <<nodeVars, graphVars, done, passes, clock, histVars, lifeVars, globalVars>>

\* a loop that may be left although keep_running is set
ReturnRegardless ==
    /\ pc = "check"
    /\ pc' = "returned"
    /\ UNCHANGED <<nodeVars, graphVars, done, passes, clock, histVars, lifeVars, globalVars>>

\* the loop test fails: Executor::run returns
RunReturn ==
    /\ pc = "check"
    /\ ~keep_running
    /\ pc' = "returned"
    /\ UNCHANGED <<nodeVars, graphVars, done, passes, clock, histVars, lifeVars, globalVars>>

NextRun ==
    \/ RunEnter
    \/ StartPass
    \/ \E n \in Nodes : TaskRun(n)
    \/ PassEnd
    \/ RunReturn

----------------------------------------------------------------------------
(* Graph assembly: add_upstream calls on freshly constructed nodes, then   *)
(* build and connect for every node.                                       *)

\* the connection state of a freshly constructed node
FreshNode == [ups |-> <<>>, bufs |-> <<>>, order |-> <<>>, customized |-> FALSE]

\* Node::add_upstream on connection state nd
add_upstream(nd, u, method) ==
    [nd EXCEPT !.ups = Append(@, [node |-> u, method_id |-> MethodId(method)]),
               !.bufs = Append(@, <<>>),
               !.order = IF ~nd.customized THEN RegisterMethodOrder(@, MethodId(method)) ELSE @]

Conn(to, from, method) == [to |-> to, from |-> from, method |-> method]

RECURSIVE Wire(_, _, _)
\* the add_upstream calls of conns that target node n, applied in order to nd
Wire(nd, n, conns) ==
    IF conns = <<>> THEN nd
    ELSE Wire(IF Head(conns).to = n THEN add_upstream(nd, Head(conns).from, Head(conns).method)
              ELSE nd, n, Tail(conns))

NoConfig == [m \in {} |-> DefaultConfig]

\* the state after constructing the nodes, wiring them by conns and setting the
\* configurations cfgs; with built, build + connect was called on every node
\* the registries when the extension module has been loaded: the static
\* registrations of the example nodes, of the tuple type a node returns and of
\* the arithmetic conversions have run. A factory is named by the class it
\* creates, a converter by its conversion, a tuple entry holds its size.
LoadedRegistries ==
    [converters |-> [k \in {<<"int", "double">>} |-> "static_cast"],
     tuples |-> [k \in {"tuple<int,string>"} |-> 2],
     factories |-> [k \in {"MultiplyBy"} |-> "MultiplyBy"]]

Constructed(classOf, privOf, conns, cfgs, trace, built) ==
    LET N == DOMAIN classOf
        nd == [n \in N |-> Wire(FreshNode, n, conns)]
    IN  /\ cls = classOf
        /\ priv = privOf
        /\ upstreams = [n \in N |-> nd[n].ups]
        /\ port_buffers = [n \in N |-> nd[n].bufs]
        /\ method_order = [n \in N |-> nd[n].order]
        /\ method_order_customized = [n \in N |-> nd[n].customized]
        /\ method_configs = cfgs
        /\ output_packet = [n \in N |-> Empty]
        /\ tasks = IF built THEN N ELSE {}
        /\ edges = IF built THEN {<<conns[k].from, conns[k].to>> : k \in 1..Len(conns)} ELSE {}
        /\ keep_running = TRUE
        /\ pc = "idle"
        /\ done = {}
        /\ passes = 0
        /\ clock = 0
        /\ trace_all = trace
        /\ calls = [n \in N |-> <<>>]
        /\ pass_calls = [n \in N |-> <<>>]
        /\ attempts = [n \in N |-> <<>>]
        /\ drops = [n \in N |-> <<>>]
        /\ arrivals = [n \in N |-> [i \in 1..Len(nd[n].ups) |-> <<>>]]
        /\ sync_dropped = [n \in N |-> [i \in 1..Len(nd[n].ups) |-> FALSE]]
        /\ stop_pass = 0
        /\ opened = [n \in N |-> FALSE]
        /\ life_calls = <<>>
        /\ raised = ""
        /\ api_call = [op |-> "", nodes |-> <<>>]
        /\ taskflow = [tasks |-> IF built THEN Cardinality(N) ELSE 0,
                       precedes |-> IF built THEN Len(conns) ELSE 0,
                       connected |-> IF built THEN N ELSE {}]
        /\ registries = LoadedRegistries

\* the state after constructing and wiring the nodes and calling build and
\* connect on every node
Assembled(classOf, privOf, conns, cfgs, trace) ==
    Constructed(classOf, privOf, conns, cfgs, trace, TRUE)

----------------------------------------------------------------------------
(* The configuration calls of the embedder API on node n, made while no     *)
(* task of the graph is running                                            *)

ConnState(n) ==
    [ups |-> upstreams[n], bufs |-> port_buffers[n], order |-> method_order[n],
     customized |-> method_order_customized[n]]

\* node.add_upstream(u, method)
AddUpstream(n, u, method) ==
    /\ pc # "pass"
    /\ Len(upstreams[n]) < MaxPorts
    /\ \E nd \in {add_upstream(ConnState(n), u, method)} :
          /\ upstreams' = [upstreams EXCEPT ![n] = nd.ups]
          /\ port_buffers' = [port_buffers EXCEPT ![n] = nd.bufs]
          /\ method_order' = [method_order EXCEPT ![n] = nd.order]
    /\ arrivals' = [arrivals EXCEPT ![n] = Append(@, <<>>)]
    /\ sync_dropped' = [sync_dropped EXCEPT ![n] = Append(@, FALSE)]
    /\ UNCHANGED <<cls, method_configs, method_order_customized, output_packet, priv,
                   graphVars, execVars, trace_all, calls, pass_calls, attempts, drops,
                   stop_pass, lifeVars, globalVars>>

\* a clear_upstreams that empties the method order whether customized or not
ClearWithOrder(n) ==
    /\ pc # "pass"
    /\ upstreams' = [upstreams EXCEPT ![n] = <<>>]
    /\ port_buffers' = [port_buffers EXCEPT ![n] = <<>>]
    /\ method_order' = [method_order EXCEPT ![n] = <<>>]
    /\ arrivals' = [arrivals EXCEPT ![n] = <<>>]
    /\ sync_dropped' = [sync_dropped EXCEPT ![n] = <<>>]
    /\ api_call' = [op |-> "clear_upstreams", nodes |-> <<n>>]
    /\ UNCHANGED <<cls, method_configs, method_order_customized, output_packet, priv,
                   graphVars, execVars, trace_all, calls, pass_calls, attempts, drops,
                   stop_pass, opened, life_calls, raised, globalVars>>

\* node.clear_upstreams(): Node::ClearUpstreams
ClearUpstreams(n) ==
    /\ pc # "pass"
    /\ upstreams' = [upstreams EXCEPT ![n] = <<>>]
    /\ port_buffers' = [port_buffers EXCEPT ![n] = <<>>]
    /\ method_order' = [method_order EXCEPT ![n] =
                           IF ~method_order_customized[n] THEN <<>> ELSE @]
    /\ arrivals' = [arrivals EXCEPT ![n] = <<>>]
    /\ sync_dropped' = [sync_dropped EXCEPT ![n] = <<>>]
    /\ api_call' = [op |-> "clear_upstreams", nodes |-> <<n>>]
    /\ UNCHANGED <<cls, method_configs, method_order_customized, output_packet, priv,
                   graphVars, execVars, trace_all, calls, pass_calls, attempts, drops,
                   stop_pass, opened, life_calls, raised, globalVars>>

\* node.set_method_order(names): Node::SetMethodOrder
SetMethodOrder(n, names) ==
    /\ pc # "pass"
    /\ method_order' = [method_order EXCEPT ![n] = OrderFromNames(names)]
    /\ method_order_customized' = [method_order_customized EXCEPT ![n] = TRUE]
    /\ UNCHANGED <<cls, upstreams, port_buffers, method_configs, output_packet, priv,
                   graphVars, execVars, histVars, lifeVars, globalVars>>

\* node.set_method_sync(method, enabled): Node::SetMethodSync
SetMethodSync(n, method, enabled) ==
    /\ pc = "idle"
    /\ method_configs' = [method_configs EXCEPT ![n] = WithMethodSync(@, method, enabled)]
    /\ UNCHANGED <<cls, upstreams, port_buffers, method_order, method_order_customized,
                   output_packet, priv, graphVars, execVars, histVars, lifeVars, globalVars>>

\* node.set_method_queue_size(method, size): Node::SetMethodQueueSize.  The
\* arrival history of the method's ports starts afresh under the new size.
SetMethodQueueSize(n, method, size) ==
    /\ pc \in {"idle", "check"}
    /\ method_configs' = [method_configs EXCEPT ![n] = WithMethodQueueSize(@, method, size)]
    /\ arrivals' = [arrivals EXCEPT ![n] =
                       [i \in 1..Len(upstreams[n]) |->
                           IF upstreams[n][i].method_id = MethodId(method) THEN <<>> ELSE @[i]]]
    /\ sync_dropped' = [sync_dropped EXCEPT ![n] =
                           [i \in 1..Len(upstreams[n]) |->
                               IF upstreams[n][i].method_id = MethodId(method)
                               THEN FALSE ELSE @[i]]]
    /\ UNCHANGED <<cls, upstreams, port_buffers, method_order, method_order_customized,
                   output_packet, priv, graphVars, execVars, trace_all, calls, pass_calls,
                   attempts, drops, stop_pass, lifeVars, globalVars>>

----------------------------------------------------------------------------
(* Method order: a MethodDispatchRecorder is connected, ordered and cleared *)
(* while the executor runs passes over it (its feeder stays silent).       *)

OrderNames == {"", "forward", "left", "right"}

NameLists == UNION {[1..k -> OrderNames] : k \in 0..MaxNames}

InitOrder ==
    Assembled([n \in {"d", "f"} |-> IF n = "d" THEN "MethodDispatchRecorder" ELSE "Feeder"],
              [n \in {"d", "f"} |-> IF n = "d" THEN Fields ELSE NewFeeder(<<>>, {}, TRUE)],
              <<>>, [n \in {"d", "f"} |-> NoConfig], FALSE)

NextOrder ==
    \/ NextRun
    \/ \E method \in OrderNames : AddUpstream("d", "f", method)
    \/ \E names \in NameLists : SetMethodOrder("d", names)
    \/ ClearUpstreams("d")

SpecOrder == InitOrder /\ [][NextOrder]_vars

Occurrences(s, x) == Cardinality({i \in 1..Len(s) : s[i] = x})

\* C2: whatever add_upstream, set_method_order and clear_upstreams calls were made,
\* ID_FORWARD occurs in the effective method order at most once and then as its
\* last element, and a dispatch pass iterates the methods so that forward comes
\* after every other method
C2_ForwardIsLast ==
    \A n \in Nodes :
        /\ Contains(EffectiveMethodOrder(method_order[n]), ID_FORWARD) =>
              /\ Last(EffectiveMethodOrder(method_order[n])) = ID_FORWARD
              /\ Occurrences(EffectiveMethodOrder(method_order[n]), ID_FORWARD) = 1
        /\ Contains(attempts[n], ID_FORWARD) =>
              /\ Last(attempts[n]) = ID_FORWARD
              /\ Occurrences(attempts[n], ID_FORWARD) = 1

C2_Witness ==
    /\ method_order_customized["d"]
    /\ Len(upstreams["d"]) = 2
    /\ attempts["d"] = <<"right", "left", "forward">>

----------------------------------------------------------------------------
(* Dispatch under configuration: a MixedNode fed by free-running feeders,  *)
(* with set_method_sync and set_method_queue_size called between tasks.    *)

IntChoices == {IntPkt(5, 0)}

StrChoices == {StrPkt("abc", 0)}

\* 1: set_string connected before forward; 2: forward connected before
\* set_string; 3: compute_ratio on two ports, forward fed by the first of them
TopologyConns(topo) ==
    CASE topo = 1 -> <<Conn("d", "fs", "set_string"), Conn("d", "fi", "")>>
      [] topo = 2 -> <<Conn("d", "fi", "forward"), Conn("d", "fs", "set_string")>>
      [] topo = 3 -> <<Conn("d", "f1", "compute_ratio"), Conn("d", "f2", "compute_ratio"),
                       Conn("d", "f1", "forward")>>

TopologyNodes(topo) == IF topo = 3 THEN {"d", "f1", "f2"} ELSE {"d", "fs", "fi"}

InitCfg ==
    \E topo \in {1, 2, 3} :
        Assembled([n \in TopologyNodes(topo) |-> IF n = "d" THEN "MixedNode" ELSE "Feeder"],
                  [n \in TopologyNodes(topo) |->
                      CASE n = "d" -> Fields
                        [] n = "fs" -> NewFeeder(<<>>, StrChoices, FALSE)
                        [] n = "fi" -> NewFeeder(<<>>, IntChoices, TRUE)
                        [] OTHER -> NewFeeder(<<>>, IntChoices, FALSE)],
                  TopologyConns(topo),
                  [n \in TopologyNodes(topo) |-> NoConfig], FALSE)

ConnectedMethods(n) == {upstreams[n][i].method_id : i \in 1..Len(upstreams[n])}

NextCfg ==
    \/ NextRun
    \/ \E m \in ConnectedMethods("d"), enabled \in BOOLEAN : SetMethodSync("d", m, enabled)
    \/ \E m \in ConnectedMethods("d"), size \in 0..MaxQueue : SetMethodQueueSize("d", m, size)

SpecCfg == InitCfg /\ [][NextCfg]_vars

\* the step is the dispatch pass of node n
DispatchPassOf(n) == pc = "pass" /\ n \notin done /\ done' = done \cup {n}

\* the port buffers of n once the pass has taken in what the upstreams hold
BufferedAtStart(n) ==
    BufferPortInputs(upstreams[n], EnsurePortBufferSize(port_buffers[n], upstreams[n]),
                     method_configs[n], output_packet)

\* method m of n is connected and each of its ports holds a packet
HasPacketOnAllPorts(n, m) ==
    /\ PortsForMethod(upstreams[n], m) # <<>>
    /\ PortsHaveData(BufferedAtStart(n), PortsForMethod(upstreams[n], m))

FrontStamps(n, m) ==
    {Head(BufferedAtStart(n)[i]).ts :
        i \in {PortsForMethod(upstreams[n], m)[k] :
                  k \in 1..Len(PortsForMethod(upstreams[n], m))}}

\* m is sync-enabled and the fronts of its ports differ in timestamp
HeldBackBySync(n, m) ==
    GetMethodConfig(method_configs[n], m).sync_enabled /\ Cardinality(FrontStamps(n, m)) > 1

ControlMethods(n) ==
    {m \in DOMAIN method_registry(cls[n]) : m \notin {ID_FORWARD, ID_OPEN, ID_CLOSE}}

Dispatchers == {n \in Nodes : cls[n] \notin {"Feeder", "SyncBarrier"} /\ ~IsSource(cls[n])}

\* in the calls of one pass, m is invoked, forward is invoked after it, and a
\* forward that follows set_string returns its argument plus the length written
ControlThenForward(called, m) ==
    /\ \E i, j \in 1..Len(called) : i < j /\ called[i].m = m /\ called[j].m = ID_FORWARD
    /\ \A i, j \in 1..Len(called) :
          called[i].m = MethodId("set_string") /\ called[j].m = ID_FORWARD =>
              /\ i < j
              /\ cls["d"] = "MixedNode" =>
                    called[j].ret.i = called[j].args[1].i + Len(called[i].args[1].s)

\* C1 as stated: in a dispatch pass of a node with the default method order, a
\* control method and forward that both hold a packet on all of their ports at
\* the start of the pass are both invoked, the control method first, and forward
\* sees what the control method wrote
C1_ControlBeforeForward ==
    [][\A n \in Dispatchers : \A m \in ControlMethods(n) :
          (/\ DispatchPassOf(n)
           /\ ~method_order_customized[n]
           /\ HasPacketOnAllPorts(n, m)
           /\ HasPacketOnAllPorts(n, ID_FORWARD))
          => ControlThenForward(pass_calls'[n], m)]_vars

\* C1 (amended): the same, for a control method that its sync policy does not
\* hold back, i.e. sync is disabled for it or the fronts of its ports carry one
\* timestamp
C1_EligibleControlBeforeForward ==
    [][\A n \in Dispatchers : \A m \in ControlMethods(n) :
          (/\ DispatchPassOf(n)
           /\ ~method_order_customized[n]
           /\ HasPacketOnAllPorts(n, m)
           /\ ~HeldBackBySync(n, m)
           /\ HasPacketOnAllPorts(n, ID_FORWARD))
          => ControlThenForward(pass_calls'[n], m)]_vars

\* forward was connected before set_string, both received a packet in pass 2,
\* and forward(5) returned 8 after set_string("abc")
C1_Witness ==
    /\ upstreams["d"][1].method_id = ID_FORWARD
    /\ passes = 2
    /\ Len(pass_calls["d"]) = 2
    /\ pass_calls["d"][1].m = MethodId("set_string")
    /\ pass_calls["d"][1].args[1].s = "abc"
    /\ pass_calls["d"][2].m = ID_FORWARD
    /\ pass_calls["d"][2].args[1].i = 5
    /\ pass_calls["d"][2].ret.i = 8

PortQueue(n, i) == GetMethodConfig(method_configs[n], upstreams[n][i].method_id).max_queue

\* the queue size of port i of n after the step
PortQueueAfter(n, i) ==
    GetMethodConfig(method_configs'[n], upstreams'[n][i].method_id).max_queue

\* C3: on every port whose method has max_queue > 0 the number of buffered packets
\* is at most max_queue, under any interleaving of dispatch passes and
\* set_method_queue_size calls; stated for the states in which a changed
\* max_queue has taken effect, those a dispatch pass of the node ends in
C3_BufferWithinMaxQueue ==
    [][\A n \in Dispatchers :
          DispatchPassOf(n) =>
              \A i \in 1..Len(port_buffers'[n]) :
                  PortQueueAfter(n, i) > 0 => Len(port_buffers'[n][i]) <= PortQueueAfter(n, i)]_vars

\* the pass brings port i of n its (K+1)-th arrival since max_queue = K was set
\* and since the method of the port was last invoked, and does not invoke it
OverflowingArrival(n, i) ==
    /\ DispatchPassOf(n)
    /\ PortQueue(n, i) > 0
    /\ Len(arrivals[n][i]) = PortQueue(n, i)
    /\ Len(arrivals'[n][i]) = PortQueue(n, i) + 1

\* C4 as stated: with max_queue = K > 0, when K+1 packets have arrived on a port
\* without an invocation of its method in between, the buffer holds the K latest
\* arrivals in arrival order
C4_KeepsMostRecent ==
    [][\A n \in Dispatchers : \A i \in 1..Len(upstreams[n]) :
          OverflowingArrival(n, i)
          => port_buffers'[n][i] = LastK(arrivals'[n][i], PortQueue(n, i))]_vars

\* C4 (amended): the same, provided no sync drop removed a packet from the port
\* in between
C4_KeepsMostRecentUnlessSyncDropped ==
    [][\A n \in Dispatchers : \A i \in 1..Len(upstreams[n]) :
          OverflowingArrival(n, i) /\ ~sync_dropped'[n][i]
          => port_buffers'[n][i] = LastK(arrivals'[n][i], PortQueue(n, i))]_vars

\* three packets arrived on a port of queue size 2 and the first was discarded
C4_Witness ==
    \E i \in 1..Len(port_buffers["d"]) :
        /\ PortQueue("d", i) = 2
        /\ Len(arrivals["d"][i]) = 3
        /\ ~sync_dropped["d"][i]
        /\ port_buffers["d"][i] = <<arrivals["d"][i][2], arrivals["d"][i][3]>>
        /\ arrivals["d"][i][1].ts < arrivals["d"][i][2].ts

\* C5: a sync-enabled method is invoked in a pass only when each of its ports
\* holds a packet and all the front packets carry one timestamp; the arguments
\* of the invocation are these fronts, so they share that timestamp
C5_SyncInvocationAligned ==
    [][\A n \in Dispatchers :
          DispatchPassOf(n) =>
              \A k \in 1..Len(pass_calls'[n]) :
                  pass_calls'[n][k].sync =>
                      /\ HasPacketOnAllPorts(n, pass_calls'[n][k].m)
                      /\ Cardinality(FrontStamps(n, pass_calls'[n][k].m)) = 1
                      /\ pass_calls'[n][k].args =
                            [a \in 1..Len(PortsForMethod(upstreams[n], pass_calls'[n][k].m)) |->
                                Head(BufferedAtStart(n)[PortsForMethod(upstreams[n],
                                                           pass_calls'[n][k].m)[a]])]
                      /\ \A a \in 1..Len(pass_calls'[n][k].args) :
                            pass_calls'[n][k].args[a].ts = pass_calls'[n][k].args[1].ts]_vars

\* compute_ratio ran sync-enabled on two packets of pass 3 after an earlier
\* packet had waited on one of its ports
C5_Witness ==
    /\ Len(pass_calls["d"]) >= 1
    /\ pass_calls["d"][1].m = MethodId("compute_ratio")
    /\ pass_calls["d"][1].sync
    /\ Len(pass_calls["d"][1].args) = 2
    /\ pass_calls["d"][1].args[1].ts = 3
    /\ pass_calls["d"][1].args[2].ts = 3

----------------------------------------------------------------------------
(* Linear pipeline: NumberSource -> MultiplyBy -> IntToText -> PrefixText, *)
(* beside an independent branch NumberSource -> MultiplyBy.                *)

ChainNodes == {"src", "mul", "txt", "sink"}

BranchNodes == {"src2", "mul2"}

PipelineClass ==
    [n \in ChainNodes \cup BranchNodes |->
        CASE n = "src" -> "NumberSource" [] n = "mul" -> "MultiplyBy"
          [] n = "txt" -> "IntToText" [] n = "sink" -> "PrefixText"
          [] n = "src2" -> "NumberSource" [] n = "mul2" -> "MultiplyBy"]

ChainConns == <<Conn("mul", "src", ""), Conn("txt", "mul", ""), Conn("sink", "txt", "")>>

BranchConns == <<Conn("mul2", "src2", "")>>

\* the counter starts at 0; its max and step, the factor, and the presence and
\* length of the side branch vary
InitPipeline ==
    \E max \in {1, 2, 3}, step \in {0, 1}, factor \in {3, 10}, max2 \in {0, 1, 5} :
        LET N == IF max2 = 0 THEN ChainNodes ELSE ChainNodes \cup BranchNodes IN
        Assembled([n \in N |-> PipelineClass[n]],
                  [n \in N |->
                      CASE n = "src" -> NewNumberSource(0, max, step)
                        [] n = "mul" -> NewMultiplyBy(factor)
                        [] n = "src2" -> NewNumberSource(0, max2, 1)
                        [] n = "mul2" -> NewMultiplyBy(2)
                        [] OTHER -> Fields],
                  IF max2 = 0 THEN ChainConns ELSE ChainConns \o BranchConns,
                  [n \in N |-> NoConfig], TRUE)

SpecPipeline == InitPipeline /\ [][NextRun]_vars

\* the executor thread and the workers of the pool keep taking steps
SpecPipelineFair == SpecPipeline /\ WF_vars(NextRun)

\* the payloads a node's methods were invoked with, one per call (first argument)
Received(n) == [k \in 1..Len(calls[n]) |-> calls[n][k].args[1]]

\* C7: once a node has called Stop in pass k, no pass k+1 is started; run returns
\* only after every task of pass k has run, the tasks downstream of the stopping
\* node included, so that every node was invoked in each of the passes 1..k and
\* in no later one
C7_StopEndsRunAfterCurrentPass ==
    /\ stop_pass # 0 => passes = stop_pass
    /\ pc = "returned" =>
          /\ stop_pass # 0
          /\ done = tasks
          /\ \A n \in Nodes : [k \in 1..Len(calls[n]) |-> calls[n][k].pass]
                                  = [k \in 1..stop_pass |-> k]

C7_Witness ==
    /\ pc = "returned"
    /\ stop_pass = 2
    /\ "src2" \in Nodes
    /\ Len(calls["sink"]) = 2

\* C8: run returns only if some node called Stop during a pass of the run; while
\* no node has called Stop the loop test finds keep_running set, so the next
\* pass starts; once a node has called Stop run returns; and with a
\* counter of positive step, which calls Stop when its sequence is exhausted,
\* run does return
C8_RunReturnsIffStopped ==
    /\ [](pc = "returned" => stop_pass # 0)
    /\ [](pc = "check" /\ stop_pass = 0 => keep_running)
    /\ (stop_pass # 0) ~> (pc = "returned")
    /\ (pc = "idle" /\ priv["src"].step_ > 0) ~> (pc = "returned")

C8_Witness ==
    /\ pc = "returned"
    /\ stop_pass = 3
    /\ priv["src"].step_ > 0
    /\ priv["src"].current_ > priv["src"].max_

\* the pipeline of the claim: Counter(0, 3, 1) -> Multiply(10) -> ToText -> sink
IsClaimedPipeline ==
    /\ Nodes = ChainNodes
    /\ priv["src"].max_ = 3
    /\ priv["src"].step_ = 1
    /\ priv["mul"].factor_ = 10

SinkStrings == [k \in 1..Len(calls["sink"]) |-> calls["sink"][k].args[1].s]

\* C9 as stated: the sink receives exactly "0", "10", "20"
C9_SinkGetsThreeItems ==
    pc = "returned" /\ IsClaimedPipeline => SinkStrings = <<"0", "10", "20">>

\* C9, amended: NumberSource emits max itself before it stops, so the sink
\* receives exactly "0", "10", "20", "30", one per pass and in order; the counter
\* calls Stop in the fourth pass and the executor exits after it
C9_SinkGetsFourItems ==
    pc = "returned" /\ IsClaimedPipeline =>
        /\ SinkStrings = <<"0", "10", "20", "30">>
        /\ [k \in 1..Len(calls["sink"]) |-> calls["sink"][k].pass] = <<1, 2, 3, 4>>
        /\ stop_pass = 4
        /\ passes = 4

C9_Witness == pc = "returned" /\ IsClaimedPipeline /\ Len(calls["sink"]) = 4

----------------------------------------------------------------------------
(* Tuple unpacking: PairEmitter -> TupleGetNode<0>, TupleGetNode<1> ->     *)
(* PairJoiner.                                                             *)

DiamondNodes == {"emit", "get0", "get1", "join"}

DiamondClass ==
    [n \in DiamondNodes |->
        CASE n = "emit" -> "PairEmitter" [] n = "get0" -> "TupleGet0"
          [] n = "get1" -> "TupleGet1" [] n = "join" -> "PairJoiner"]

DiamondConns ==
    <<Conn("get0", "emit", ""), Conn("get1", "emit", ""),
      Conn("join", "get0", ""), Conn("join", "get1", "")>>

\* the emitter starts at 0; its max, and sync and queue size of the joiner, vary
InitDiamond ==
    \E max \in {0, 1, 2, 3}, sync \in BOOLEAN, queue \in {0, 1} :
        Assembled(DiamondClass,
                  [n \in DiamondNodes |->
                      IF n = "emit" THEN NewPairEmitter(0, max) ELSE Fields],
                  DiamondConns,
                  [n \in DiamondNodes |->
                      IF n = "join"
                      THEN WithMethodQueueSize(WithMethodSync(NoConfig, "forward", sync),
                                               "forward", queue)
                      ELSE NoConfig], TRUE)

SpecDiamond == InitDiamond /\ [][NextRun]_vars

\* the pair the emitter produced in pass k
EmittedPair(k) == calls["emit"][k].ret

\* C10: with PairEmitter(0, 2) the joiner produces exactly "value_0:0", "value_1:1",
\* "value_2:2", one per pass and in that order, and both arguments of the k-th
\* invocation are the elements of the pair emitted in pass k
C10_JoinerSeesEachPairOnce ==
    pc = "returned" /\ priv["emit"].max_ = 2 =>
        /\ [k \in 1..Len(calls["join"]) |-> calls["join"][k].ret.s]
               = <<"value_0:0", "value_1:1", "value_2:2">>
        /\ \A k \in 1..Len(calls["join"]) :
              /\ calls["join"][k].pass = k
              /\ calls["emit"][k].pass = k
              /\ calls["join"][k].args[1] = IntPkt(EmittedPair(k).i, EmittedPair(k).ts)
              /\ calls["join"][k].args[2] = StrPkt(EmittedPair(k).s, EmittedPair(k).ts)
              /\ EmittedPair(k).i = k - 1
        /\ \A i \in 1..2 : port_buffers["join"][i] = <<>>

C10_Witness ==
    /\ pc = "returned"
    /\ priv["emit"].max_ = 2
    /\ Len(calls["join"]) = 3
    /\ output_packet["join"].s = "value_2:2"

----------------------------------------------------------------------------
(* Timestamp alignment: two feeders into the sync-enabled two-input        *)
(* forward of a PairJoiner.                                                *)

SyncNodes == {"a", "b", "join"}

SyncClass == [n \in SyncNodes |-> IF n = "join" THEN "PairJoiner" ELSE "Feeder"]

SyncConns == <<Conn("join", "a", "forward"), Conn("join", "b", "forward")>>

IntFeed(stamps) == [k \in 1..Len(stamps) |-> IntPkt(k, stamps[k])]

StrFeed(stamps) == [k \in 1..Len(stamps) |-> StrPkt("s" \o ToStdString(k), stamps[k])]

Stamps(feed) == [k \in 1..Len(feed) |-> feed[k].ts]

\* the two timestamp sequences vary; feeder a may call Stop with its last packet
InitSync ==
    \E sa \in {<<10, 20, 30>>, <<10, 20>>, <<20, 30>>},
       sb \in {<<15, 20, 40>>, <<20, 40>>, <<15, 20>>},
       stops \in BOOLEAN :
        Assembled(SyncClass,
                  [n \in SyncNodes |->
                      CASE n = "a" -> NewFeeder(IntFeed(sa), {}, stops)
                        [] n = "b" -> NewFeeder(StrFeed(sb), {}, FALSE)
                        [] OTHER -> Fields],
                  SyncConns,
                  [n \in SyncNodes |->
                      IF n = "join" THEN WithMethodSync(NoConfig, "forward", TRUE)
                      ELSE NoConfig], TRUE)

SpecSync == InitSync /\ [][NextRun]_vars

IsClaimedFeeds ==
    /\ Stamps(priv["a"].feed) = <<10, 20, 30>>
    /\ Stamps(priv["b"].feed) = <<15, 20, 40>>

\* C6: with the feeds 10,20,30 and 15,20,40 the method is never invoked with
\* anything but the pair stamped 20, and when the third pass has completed it has
\* been invoked exactly once, the packets dropped are those stamped 10 and 15,
\* and the buffers hold the packets stamped 30 and 40
C6_OnlyAlignedPairIsDelivered ==
    IsClaimedFeeds =>
        /\ \A k \in 1..Len(calls["join"]) : Stamps(calls["join"][k].args) = <<20, 20>>
        /\ Len(calls["join"]) <= 1
        /\ passes = 3 /\ pc \in {"check", "returned"} =>
              /\ Len(calls["join"]) = 1
              /\ Stamps(drops["join"]) = <<10, 15>>
              /\ Stamps(port_buffers["join"][1]) = <<30>>
              /\ Stamps(port_buffers["join"][2]) = <<40>>

C6_Witness ==
    /\ IsClaimedFeeds
    /\ pc = "returned"
    /\ passes = 3
    /\ Len(calls["join"]) = 1
    /\ Len(drops["join"]) = 2

----------------------------------------------------------------------------
(* The lifecycle: Node::Open / Node::Close and Executor::open / close, on  *)
(* a feeder f, a Session s fed by f and a MultiplyBy m fed by s. The calls *)
(* are made by the embedder before Executor::run and after it returned.    *)

\* BaseNode::invoke: what is empty when the call returned, otherwise the
\* message of the std::runtime_error it left with
invoke(c, m, p, args) ==
    IF m \notin DOMAIN method_registry(c)
    THEN [what |-> "Method not found in registry", priv |-> p, ran |-> FALSE]
    ELSE Apply(LAMBDA res : [what |-> IF res.ok THEN "" ELSE "Argument mismatch",
                             priv |-> res.priv, ran |-> res.ok],
               Invoker(c, m, p, args))

\* a hook that marks the node opened or idle although the invocation threw
HookIgnoringError(c, m, p, args, was_open) ==
    LET r == invoke(c, m, p, args)
    IN  [opened |-> m = ID_OPEN, priv |-> r.priv, invoked |-> r.ran,
         raised |-> IF r.what # "" /\ r.what # "Method not found in registry"
                    THEN "runtime_error" ELSE ""]

\* the try / catch of Open and Close around invoke: "Method not found" is
\* swallowed, any other std::runtime_error is rethrown
Hook(c, m, p, args, was_open) ==
    LET r == invoke(c, m, p, args)
        thrown == r.what # "" /\ r.what # "Method not found in registry"
    IN  [opened |-> IF thrown THEN was_open ELSE m = ID_OPEN, priv |-> r.priv,
         invoked |-> r.ran, raised |-> IF thrown THEN "runtime_error" ELSE ""]

\* an Open without the test of opened_
OpenAgain(c, p, is_open, args) == Hook(c, ID_OPEN, p, args, is_open)

\* Node::Open
NodeOpen(c, p, is_open, args) ==
    IF is_open THEN [opened |-> TRUE, priv |-> p, invoked |-> FALSE, raised |-> ""]
    ELSE Hook(c, ID_OPEN, p, args, is_open)

\* Node::Close
NodeClose(c, p, is_open, args) ==
    IF ~is_open THEN [opened |-> FALSE, priv |-> p, invoked |-> FALSE, raised |-> ""]
    ELSE Hook(c, ID_CLOSE, p, args, is_open)

\* the nodes of the graph that derive from BaseNode
BaseNodes == {n \in Nodes : cls[n] # "Feeder"}

\* node.open(*args), called by the embedder outside Executor::run
Open(n, args) ==
    /\ pc \in {"idle", "returned"}
    /\ \E r \in {NodeOpen(cls[n], priv[n], opened[n], args)} :
        /\ opened' = [opened EXCEPT ![n] = r.opened]
        /\ priv' = [priv EXCEPT ![n] = r.priv]
        /\ life_calls' = <<[op |-> ID_OPEN, node |-> n, invoked |-> r.invoked]>>
        /\ raised' = r.raised
    /\ api_call' = [op |-> "Node::Open", nodes |-> <<n>>]
    /\ UNCHANGED <<cls, upstreams, port_buffers, method_configs, method_order,
                   method_order_customized, output_packet, graphVars, execVars, histVars,
                   globalVars>>

\* node.close(*args)
Close(n, args) ==
    /\ pc \in {"idle", "returned"}
    /\ \E r \in {NodeClose(cls[n], priv[n], opened[n], args)} :
        /\ opened' = [opened EXCEPT ![n] = r.opened]
        /\ priv' = [priv EXCEPT ![n] = r.priv]
        /\ life_calls' = <<[op |-> ID_CLOSE, node |-> n, invoked |-> r.invoked]>>
        /\ raised' = r.raised
    /\ api_call' = [op |-> "Node::Close", nodes |-> <<n>>]
    /\ UNCHANGED <<cls, upstreams, port_buffers, method_configs, method_order,
                   method_order_customized, output_packet, graphVars, execVars, histVars,
                   globalVars>>

RECURSIVE ForEachNode(_, _, _, _)
\* "for (auto* node : nodes)" of Executor::open and Executor::close: the hook
\* op is called without arguments on nodes[k], nodes[k + 1], ...; an exception
\* ends the loop
ForEachNode(op, nodes, k, st) ==
    IF k > Len(nodes) \/ st.raised # "" THEN st
    ELSE LET n == nodes[k]
             r == IF op = ID_OPEN THEN NodeOpen(cls[n], st.priv[n], st.opened[n], <<>>)
                  ELSE NodeClose(cls[n], st.priv[n], st.opened[n], <<>>)
         IN  ForEachNode(op, nodes, k + 1,
                         [opened |-> [st.opened EXCEPT ![n] = r.opened],
                          priv |-> [st.priv EXCEPT ![n] = r.priv],
                          calls |-> Append(st.calls, [op |-> op, node |-> n,
                                                    invoked |-> r.invoked]),
                          raised |-> r.raised])

\* Executor::open(nodes)
ExecutorOpen(nodes) ==
    /\ pc \in {"idle", "returned"}
    /\ \E st \in {ForEachNode(ID_OPEN, nodes, 1, [opened |-> opened, priv |-> priv,
                                                    calls |-> <<>>, raised |-> ""])} :
        /\ opened' = st.opened
        /\ priv' = st.priv
        /\ life_calls' = st.calls
        /\ raised' = st.raised
    /\ api_call' = [op |-> "Executor::open", nodes |-> nodes]
    /\ UNCHANGED <<cls, upstreams, port_buffers, method_configs, method_order,
                   method_order_customized, output_packet, graphVars, execVars, histVars,
                   globalVars>>

\* Executor::close(nodes)
ExecutorClose(nodes) ==
    /\ pc \in {"idle", "returned"}
    /\ \E st \in {ForEachNode(ID_CLOSE, nodes, 1, [opened |-> opened, priv |-> priv,
                                                    calls |-> <<>>, raised |-> ""])} :
        /\ opened' = st.opened
        /\ priv' = st.priv
        /\ life_calls' = st.calls
        /\ raised' = st.raised
    /\ api_call' = [op |-> "Executor::close", nodes |-> nodes]
    /\ UNCHANGED <<cls, upstreams, port_buffers, method_configs, method_order,
                   method_order_customized, output_packet, graphVars, execVars, histVars,
                   globalVars>>

InitLife ==
    Assembled([f |-> "Feeder", s |-> "Session", m |-> "MultiplyBy"],
              [f |-> NewFeeder(<<IntPkt(4, 0)>>, {}, TRUE), s |-> Fields,
               m |-> NewMultiplyBy(3)],
              <<Conn("s", "f", ""), Conn("m", "s", "")>>,
              [n \in {"f", "s", "m"} |-> NoConfig], FALSE)

\* node.open and node.close are called with no argument or with one, and
\* Executor::open and Executor::close with any list of up to MaxList nodes
NextLife ==
    \/ NextRun
    \/ \E n \in BaseNodes, args \in {<<>>, <<IntPkt(1, 0)>>} : Open(n, args)
    \/ \E n \in BaseNodes, args \in {<<>>, <<IntPkt(1, 0)>>} : Close(n, args)
    \/ \E nodes \in UNION {[1..k -> BaseNodes] : k \in 0..MaxList} : ExecutorOpen(nodes)
    \/ \E nodes \in UNION {[1..k -> BaseNodes] : k \in 0..MaxList} : ExecutorClose(nodes)

SpecLife == InitLife /\ [][NextLife]_vars

\* the calls of hook op that ran the registered method of node n
Invocations(made, op, n) ==
    Cardinality({k \in 1..Len(made) : made[k].op = op /\ made[k].node = n /\ made[k].invoked})

\* C11: over any sequence of Open and Close calls, the Open method of a node is
\* invoked exactly once per idle-to-opened transition and never otherwise, its
\* Close method exactly once per opened-to-idle transition and never otherwise;
\* an Open on an opened node and a Close on an idle node change nothing
C11_HooksOncePerTransition ==
    [][api_call' # api_call \/ life_calls' # life_calls \/ opened' # opened =>
        \A n \in BaseNodes :
            /\ Invocations(life_calls', ID_OPEN, n) =
                   (IF ~opened[n] /\ opened'[n] /\ ID_OPEN \in DOMAIN method_registry(cls[n])
                    THEN 1 ELSE 0)
            /\ Invocations(life_calls', ID_CLOSE, n) =
                   (IF opened[n] /\ ~opened'[n] /\ ID_CLOSE \in DOMAIN method_registry(cls[n])
                    THEN 1 ELSE 0)
            /\ opened'[n] = opened[n] => priv'[n] = priv[n]]_vars

\* a second node.open() on the opened Session invoked nothing
C11_Witness ==
    /\ api_call = [op |-> "Node::Open", nodes |-> <<"s">>]
    /\ opened["s"]
    /\ priv["s"].ready_
    /\ raised = ""
    /\ life_calls = <<[op |-> ID_OPEN, node |-> "s", invoked |-> FALSE]>>

\* C12: a task pass executed on a node that is not opened (before its first
\* Open or after a Close) invokes none of the node's methods, consumes no input
\* and writes no output
C12_NoDispatchWhileIdle ==
    [][\A n \in BaseNodes :
          DispatchPassOf(n) /\ ~opened[n] =>
              /\ pass_calls'[n] = <<>>
              /\ port_buffers'[n] = port_buffers[n]
              /\ output_packet'[n] = output_packet[n]]_vars

\* C13: Executor::open calls Open on the nodes in the order of the given list,
\* and Executor::close calls Close on them in the reverse of that order
C13_OpenInOrderCloseInReverse ==
    LET called == [k \in 1..Len(life_calls) |-> life_calls[k].node]
        given == api_call.nodes
    IN  /\ api_call.op = "Executor::open" => called = given
        /\ api_call.op = "Executor::close" =>
               called = [k \in 1..Len(given) |-> given[Len(given) + 1 - k]]

----------------------------------------------------------------------------
(* Dispatch on packets of the wrong type. Graph 1: the feeders fa, fb, fc  *)
(* feed left, right and forward of a MethodDispatchRecorder r, which feeds *)
(* a MultiplyBy k; fb may emit a string where right takes an int. Graph 2: *)
(* a feeder fi emits an int or a double to a Halver h, whose forward takes *)
(* a double.                                                               *)

InitFault ==
    \/ Assembled([fa |-> "Feeder", fb |-> "Feeder", fc |-> "Feeder",
                  r |-> "MethodDispatchRecorder", k |-> "MultiplyBy"],
                 [fa |-> NewFeeder(<<>>, {IntPkt(1, 0)}, TRUE),
                  fb |-> NewFeeder(<<>>, {IntPkt(2, 0), StrPkt("x", 0)}, FALSE),
                  fc |-> NewFeeder(<<>>, {IntPkt(3, 0)}, FALSE),
                  r |-> Fields, k |-> NewMultiplyBy(2)],
                 <<Conn("r", "fa", "left"), Conn("r", "fb", "right"), Conn("r", "fc", ""),
                   Conn("k", "r", "")>>,
                 [n \in {"fa", "fb", "fc", "r", "k"} |-> NoConfig], FALSE)
    \/ Assembled([fi |-> "Feeder", h |-> "Halver"],
                 [fi |-> NewFeeder(<<>>, {IntPkt(6, 0), DoublePkt(6, 1, 0)}, TRUE), h |-> Fields],
                 <<Conn("h", "fi", "")>>, [n \in {"fi", "h"} |-> NoConfig], FALSE)

SpecFault == InitFault /\ [][NextRun]_vars

\* in the pass about to run on n, method m is due (connected on as many ports
\* as it has arguments, a packet on each, not held back by sync) and one of
\* the packets at the front of its ports is not of the type m declares
Mistyped(n, m) ==
    LET ports == PortsForMethod(upstreams[n], m)
        registry == method_registry(cls[n])
    IN  /\ m \in DOMAIN registry
        /\ Len(ports) = Len(registry[m].args)
        /\ HasPacketOnAllPorts(n, m)
        /\ ~HeldBackBySync(n, m)
        /\ \E i \in 1..Len(ports) :
               Head(BufferedAtStart(n)[ports[i]]).t # registry[m].args[i]

\* a method of the method order of n is mistyped in the pass about to run
PassFails(n) ==
    \E i \in 1..Len(EffectiveMethodOrder(method_order[n])) :
        Mistyped(n, EffectiveMethodOrder(method_order[n])[i])

LastValue(called) ==
    LET valued == SelectSeq(called, LAMBDA call : call.ret.has)
    IN  IF valued = <<>> THEN Empty ELSE Last(valued).ret

\* C15 as claimed: after every dispatch pass of a node its output slot holds the
\* value returned by the last method invoked in that pass that returned a value,
\* and is empty if no method returned a value in that pass
C15_OutputIsLastValue ==
    [][\A n \in Dispatchers :
          DispatchPassOf(n) => output_packet'[n] = LastValue(pass_calls'[n])]_vars

\* C15: after every dispatch pass of a node in which no invocation raised an
\* exception, its output slot holds the value returned by the last method
\* invoked in that pass that returned a value, and is empty if none returned a
\* value; after a pass in which an invocation raised an exception it is empty;
\* so a value of an earlier pass never stays in the slot
C15_OutputIsLastValueUnlessFailed ==
    [][\A n \in Dispatchers :
          DispatchPassOf(n) =>
              output_packet'[n] = IF PassFails(n) THEN Empty ELSE LastValue(pass_calls'[n])]_vars

\* left, right and forward of r returned 1, 2 and 3 in one pass after the
\* first, and the slot holds the 3 of forward
C15_Witness ==
    /\ "r" \in Nodes
    /\ passes >= 2
    /\ "r" \in done
    /\ [j \in 1..Len(pass_calls["r"]) |-> pass_calls["r"][j].ret.i] = <<1, 2, 3>>
    /\ output_packet["r"] = IntPkt(3, passes)

\* the invocations of the latest pass of n that wrote the output slot
Writers(n) == {j \in 1..Len(pass_calls[n]) : pass_calls[n][j].wrote}

\* C16 as claimed: in every task pass of a node in which a method is invoked and
\* returns a value, the output slot is written by exactly one method invocation,
\* also when several methods are eligible and each returns a value
C16_OneWritePerPass ==
    [][\A n \in Dispatchers :
          DispatchPassOf(n) /\ Writers(n)' # {} => Cardinality(Writers(n)') = 1]_vars

\* C16: in every task pass of a node each method is invoked at most once, the
\* output slot is written by every invocation of a method that returns a value
\* and by no other, each write replacing the one before, so that after a pass
\* without an exception the slot holds the value of exactly one invocation (the
\* last that wrote) or, if none wrote, nothing
C16_OneWritePerValueReturningCall ==
    [][\A n \in Dispatchers :
          DispatchPassOf(n) =>
              /\ \A i, j \in 1..Len(pass_calls'[n]) :
                     pass_calls'[n][i].m = pass_calls'[n][j].m => i = j
              /\ \A j \in 1..Len(pass_calls'[n]) :
                     pass_calls'[n][j].wrote <=>
                         method_registry(cls[n])[pass_calls'[n][j].m].ret # "void"
              /\ ~PassFails(n) =>
                     IF Writers(n)' = {} THEN output_packet'[n] = Empty
                     ELSE \E j \in Writers(n)' :
                              /\ \A i \in Writers(n)' : i <= j
                              /\ output_packet'[n] = pass_calls'[n][j].ret]_vars

\* left, right and forward of r were eligible in one pass and each wrote the
\* slot, which holds what forward, the last of them, returned
C16_Witness ==
    /\ "r" \in Nodes
    /\ "r" \in done
    /\ Writers("r") = {1, 2, 3}
    /\ pass_calls["r"][3].m = ID_FORWARD
    /\ output_packet["r"] = pass_calls["r"][3].ret

----------------------------------------------------------------------------
(* Empty upstream output (checked on the graphs of SpecCfg)                *)

\* the pass of n appended nothing to port i: the buffer is what it was, or
\* what it was without its front
NothingAppended(n, i) ==
    \/ port_buffers'[n][i] = port_buffers[n][i]
    \/ port_buffers[n][i] # <<>> /\ port_buffers'[n][i] = Tail(port_buffers[n][i])

\* the pass of n invoked the method bound to port i
InvokedMethodOf(n, i) ==
    \E j \in 1..Len(pass_calls'[n]) : pass_calls'[n][j].m = upstreams[n][i].method_id

\* C17 as claimed: in a pass in which an upstream's output slot is empty,
\* nothing is appended to the port fed by that upstream and the method bound to
\* that port is not invoked in that pass
C17_EmptyUpstreamNoDispatch ==
    [][\A n \in Dispatchers : \A i \in 1..Len(upstreams[n]) :
          DispatchPassOf(n) /\ ~output_packet[upstreams[n][i].node].has =>
              NothingAppended(n, i) /\ ~InvokedMethodOf(n, i)]_vars

\* C17: in a pass in which an upstream's output slot is empty, nothing is
\* appended to the port fed by that upstream, and the method bound to that port
\* is not invoked in that pass unless the port still holds a packet buffered in
\* an earlier pass, which the invocation then consumes
C17_EmptyUpstreamNoAppend ==
    [][\A n \in Dispatchers : \A i \in 1..Len(upstreams[n]) :
          DispatchPassOf(n) /\ ~output_packet[upstreams[n][i].node].has =>
              /\ NothingAppended(n, i)
              /\ InvokedMethodOf(n, i) =>
                     /\ port_buffers[n][i] # <<>>
                     /\ port_buffers'[n][i] = Tail(port_buffers[n][i])]_vars

\* f1 emitted nothing in this pass, and compute_ratio of d was invoked on the
\* packet its first port had kept from an earlier pass
C17_Witness ==
    /\ "f1" \in Nodes
    /\ pc = "pass"
    /\ "d" \in done
    /\ ~output_packet["f1"].has
    /\ \E j \in 1..Len(pass_calls["d"]) :
           /\ pass_calls["d"][j].m = MethodId("compute_ratio")
           /\ pass_calls["d"][j].args[1].ts < passes

----------------------------------------------------------------------------
(* Numeric coercion (checked on graph 2 of SpecFault)                      *)

\* the registered int -> double converter: static_cast<double>(from)
IntToDouble(pkt) == DoublePkt(pkt.i, 1, pkt.ts)

\* C18: when the upstream emits an int and the method it feeds declares a
\* double argument, the dispatch pass converts the value, invokes the method
\* with the exactly equal double, and the method's result is in the output slot
C18_IntIsCoercedToDouble ==
    [][\A n \in Dispatchers :
          /\ DispatchPassOf(n)
          /\ method_registry(cls[n])[ID_FORWARD].args = <<"double">>
          /\ HasPacketOnAllPorts(n, ID_FORWARD)
          /\ Head(BufferedAtStart(n)[1]).t = "int"
          => \E arg \in {IntToDouble(Head(BufferedAtStart(n)[1]))} :
                 /\ Len(pass_calls'[n]) = 1
                 /\ pass_calls'[n][1].args = <<arg>>
                 /\ output_packet'[n] =
                        PropagateTimestamp(MethodBody(cls[n], ID_FORWARD, priv[n], <<arg>>).ret,
                                           <<arg>>)]_vars

----------------------------------------------------------------------------
(* Assembly step by step: add_upstream, build and connect called by the    *)
(* embedder in any order on a feeder f and two MultiplyBy nodes a and b,   *)
(* before Executor::run.                                                   *)

\* node.build(graph): the task of n is emplaced in the taskflow
Build(n) ==
    /\ pc = "idle"
    /\ n \notin tasks
    /\ tasks' = tasks \cup {n}
    /\ taskflow' = [taskflow EXCEPT !.tasks = @ + 1]
    /\ api_call' = [op |-> "build", nodes |-> <<n>>]
    /\ raised' = ""
    /\ UNCHANGED <<nodeVars, edges, keep_running, execVars, histVars, opened, life_calls,
                   registries>>

\* the nodes connected as upstreams of n
UpstreamNodes(n) == {upstreams[n][i].node : i \in 1..Len(upstreams[n])}

\* connect on n meets a task handle that build has not filled yet
MissingTask(n) == UpstreamNodes(n) # {} /\ ~({n} \cup UpstreamNodes(n) \subseteq tasks)

\* a connect that installs no precedence between the tasks
ConnectWithoutEdges(n) ==
    /\ pc = "idle"
    /\ n \notin taskflow.connected
    /\ taskflow' = [taskflow EXCEPT !.connected = @ \cup {n}]
    /\ api_call' = [op |-> "connect", nodes |-> <<n>>]
    /\ raised' = ""
    /\ UNCHANGED <<nodeVars, tasks, edges, keep_running, execVars, histVars,
                   opened, life_calls, registries>>

\* node.connect(): "conn.node->get_task().precede(task_)" for every upstream.
\* Nothing tests that the tasks exist: with an empty handle on either side the
\* call is undefined behaviour, after which the process has crashed or goes on,
\* with the edges between existing tasks installed or not. No exception is
\* thrown on any path.
Connect(n) ==
    /\ pc = "idle"
    /\ n \notin taskflow.connected
    /\ taskflow' = [taskflow EXCEPT !.precedes = @ + Len(upstreams[n]),
                                    !.connected = @ \cup {n}]
    /\ LET valid == {<<u, n>> : u \in {v \in UpstreamNodes(n) : {v, n} \subseteq tasks}}
       IN  IF ~MissingTask(n)
           THEN edges' = edges \cup valid /\ pc' = pc
           ELSE /\ edges' \in {edges, edges \cup valid}
                /\ pc' \in {"idle", "crashed"}
    /\ api_call' = [op |-> "connect", nodes |-> <<n>>]
    /\ raised' = ""
    /\ UNCHANGED <<nodeVars, tasks, keep_running, done, passes, clock, histVars,
                   opened, life_calls, registries>>

InitAssembly ==
    Constructed([f |-> "Feeder", a |-> "MultiplyBy", b |-> "MultiplyBy"],
                [f |-> NewFeeder(<<IntPkt(1, 0)>>, {}, TRUE), a |-> NewMultiplyBy(2),
                 b |-> NewMultiplyBy(3)],
                <<>>, [n \in {"f", "a", "b"} |-> NoConfig], FALSE, FALSE)

\* a and b take one upstream each, any node of the graph
NextAssembly ==
    \/ NextRun
    \/ \E n \in {"a", "b"}, u \in Nodes :
          pc = "idle" /\ upstreams[n] = <<>> /\ AddUpstream(n, u, "")
    \/ \E n \in Nodes : Build(n)
    \/ \E n \in Nodes : Connect(n)

SpecAssembly == InitAssembly /\ [][NextAssembly]_vars

\* C19: connect on a node before build has created the tasks involved (its own
\* task or an upstream's task) raises an assembly error and installs no
\* precedence edge
C19_ConnectBeforeBuildRaises ==
    [][\A n \in Nodes :
          /\ api_call' # api_call
          /\ api_call' = [op |-> "connect", nodes |-> <<n>>]
          /\ MissingTask(n)
          => raised' = "assembly_error" /\ edges' = edges]_vars

RECURSIVE ReachableFrom(_, _)
\* the nodes reachable from the nodes of from along one or more edges of the
\* taskflow
ReachableFrom(from, seen) ==
    LET next == {e[2] : e \in {d \in edges : d[1] \in from}} \ seen
    IN  IF next = {} THEN seen ELSE ReachableFrom(next, seen \cup next)

\* C20: no cycle of precedence edges is ever installed in the task graph, a
\* node preceding itself included, so a pass of Executor::run that has started
\* can always run a remaining task or end
C20_NoCycleInstalled ==
    /\ \A n \in Nodes : n \notin ReachableFrom({n}, {})
    /\ pc = "pass" => done = tasks \/ \E n \in Nodes : Runnable(n)

----------------------------------------------------------------------------
(* Reassembly: the chain f -> s -> m is reset, built and connected again,   *)
(* any number of times, with runs in between. The nodes keep their         *)
(* upstream connections; build is called on every node before connect is.  *)

\* a Reset that leaves the stop flag as the last run left it
ResetKeepingStop ==
    /\ pc \in {"idle", "returned"}
    /\ tasks' = {}
    /\ edges' = {}
    /\ taskflow' = [tasks |-> 0, precedes |-> 0, connected |-> {}]
    /\ pc' = "idle"
    /\ done' = {}
    /\ api_call' = [op |-> "reset", nodes |-> <<>>]
    /\ raised' = ""
    /\ UNCHANGED <<nodeVars, keep_running, passes, clock, histVars, opened, life_calls,
                   registries>>

\* a Reset that does not clear the taskflow
ResetWithoutClear ==
    /\ pc \in {"idle", "returned"}
    /\ taskflow' = [taskflow EXCEPT !.connected = {}]
    /\ keep_running' = TRUE
    /\ pc' = "idle"
    /\ done' = {}
    /\ api_call' = [op |-> "reset", nodes |-> <<>>]
    /\ raised' = ""
    /\ UNCHANGED <<nodeVars, tasks, edges, passes, clock, histVars, opened, life_calls,
                   registries>>

\* ExecutionGraph::Reset, called outside Executor::run: "taskflow.clear();
\* keep_running = true;". The task handles of the nodes are stale afterwards,
\* and run may be called again. No field of a node is written.
Reset ==
    /\ pc \in {"idle", "returned"}
    /\ tasks' = {}
    /\ edges' = {}
    /\ taskflow' = [tasks |-> 0, precedes |-> 0, connected |-> {}]
    /\ keep_running' = TRUE
    /\ pc' = "idle"
    /\ done' = {}
    /\ api_call' = [op |-> "reset", nodes |-> <<>>]
    /\ raised' = ""
    /\ UNCHANGED <<nodeVars, passes, clock, histVars, opened, life_calls, registries>>

NextRebuild ==
    \/ NextRun
    \/ Reset
    \/ \E n \in Nodes : Build(n)
    \/ \E n \in Nodes : tasks = Nodes /\ Connect(n)

SpecRebuild == InitLife /\ [][NextRebuild]_vars

\* C21 as stated: after Reset the tasks, the precedence edges and the upstream
\* connections of the previous assembly are gone and the stop flag is set to
\* keep running
C21_ResetClearsEverything ==
    [][api_call' # api_call /\ api_call'.op = "reset"
          => /\ tasks' = {} /\ edges' = {}
             /\ taskflow'.tasks = 0 /\ taskflow'.precedes = 0
             /\ keep_running'
             /\ \A n \in Nodes : upstreams'[n] = <<>>]_vars

\* C21: after Reset the tasks and the precedence edges of the previous assembly
\* are gone and the stop flag is set to keep running; the upstream connections
\* of the nodes are not touched by Reset (clear_upstreams removes them), so
\* they give the same edges at the next connect and carry packets in a later run
C21_ResetClearsTaskflowOnly ==
    [][api_call' # api_call /\ api_call'.op = "reset"
          => /\ tasks' = {} /\ edges' = {}
             /\ taskflow'.tasks = 0 /\ taskflow'.precedes = 0
             /\ keep_running'
             /\ upstreams' = upstreams]_vars

\* a run after a Reset and a second assembly, in which m has been invoked on
\* a packet that arrived over the connections made before the Reset
C21_Witness ==
    /\ api_call.op = "connect"
    /\ pc = "pass"
    /\ "m" \in done
    /\ pass_calls["m"] # <<>>

\* C22: whenever build and then connect have been called on every node since
\* the latest Reset, in the first assembly or a later one, the taskflow holds
\* exactly one task per node and exactly one precedence edge per upstream
\* connection, and the edges are those of the upstream relation
C22_RebuildGivesSameGraph ==
    tasks = Nodes /\ taskflow.connected = Nodes =>
        /\ taskflow.tasks = Cardinality(Nodes)
        /\ taskflow.precedes =
               Cardinality({<<n, i>> \in Nodes \X (1..MaxPorts) : i <= Len(upstreams[n])})
        /\ edges = UNION {{<<u, n>> : u \in UpstreamNodes(n)} : n \in Nodes}

\* a second assembly is complete: passes have run, the graph has been reset and
\* every node has been built and connected again
C22_Witness ==
    /\ pc = "idle"
    /\ passes > 0
    /\ api_call.op = "connect"
    /\ tasks = Nodes
    /\ taskflow.connected = Nodes

----------------------------------------------------------------------------
(* clear_upstreams on the recorder d of SpecOrder, and set_method_order on  *)
(* the same node while the executor runs passes over it                    *)

NextSetOrder ==
    \/ NextRun
    \/ \E names \in NameLists : SetMethodOrder("d", names)

SpecSetOrder == InitOrder /\ [][NextSetOrder]_vars

\* C26: clear_upstreams on a node whose method order was set explicitly
\* removes all connections and port buffers and leaves the method order as
\* it was set; on a node whose order was never set explicitly the order is
\* emptied as well, so that the default order applies
C26_ClearKeepsCustomOrder ==
    [][\A n \in Nodes :
          upstreams'[n] = <<>> /\ ClearUpstreams(n) =>
              /\ upstreams'[n] = <<>>
              /\ port_buffers'[n] = <<>>
              /\ method_order_customized'[n] = method_order_customized[n]
              /\ method_order'[n] =
                     IF method_order_customized[n] THEN method_order[n] ELSE <<>>]_vars

\* clear_upstreams has just been called on d, whose order was set explicitly:
\* the order is still the explicit one
C26_Witness ==
    /\ api_call.op = "clear_upstreams"
    /\ upstreams["d"] = <<>>
    /\ method_order_customized["d"]
    /\ method_order["d"] = <<"right", "left", "forward">>

\* the distinct methods of names in list order, forward taken out
NamedControlMethods(names) == Without(Dedup(names, <<>>), ID_FORWARD)

\* C27 as stated: after set_method_order(names) with a non-empty list the
\* methods attempted are the distinct methods of names in list order, with
\* forward moved to the end if names contains it and absent otherwise
C27_ForwardOnlyIfListed ==
    [][\A names \in NameLists \ {<<>>} :
          SetMethodOrder("d", names) =>
              EffectiveMethodOrder(method_order'["d"]) =
                  IF Contains(Dedup(names, <<>>), ID_FORWARD)
                  THEN Append(NamedControlMethods(names), ID_FORWARD)
                  ELSE Dedup(names, <<>>)]_vars

\* C27: after set_method_order(names) the methods attempted in each pass are
\* the distinct methods of names other than forward, in list order, followed
\* by forward, whether names contains forward or not (a list that names no
\* other method leaves forward alone, the default order)
C27_ListedThenForward ==
    [][/\ \A names \in NameLists :
             SetMethodOrder("d", names) =>
                 /\ EffectiveMethodOrder(method_order'["d"]) =
                        Append(NamedControlMethods(names), ID_FORWARD)
                 /\ method_order'["d"] \in {<<>>, EffectiveMethodOrder(method_order'["d"])}
       /\ DispatchPassOf("d") =>
             attempts'["d"] = EffectiveMethodOrder(method_order["d"])]_vars

\* a pass has attempted the methods of an explicit order of two control methods
C27_Witness ==
    /\ method_order_customized["d"]
    /\ method_order["d"] = <<"right", "left", "forward">>
    /\ attempts["d"] = <<"right", "left", "forward">>
    /\ pc = "check"

----------------------------------------------------------------------------
(* The sync drop of one pass                                               *)

\* the ports of method m on node n
PortSet(n, m) == {i \in 1..Len(upstreams[n]) : upstreams[n][i].method_id = m}

\* the port buffers of n after the sync drop of m, computed from the buffers
\* the pass starts with
AfterDrop(n, m) ==
    [i \in 1..Len(BufferedAtStart(n)) |->
        IF i \in PortSet(n, m)
           /\ \A j \in PortSet(n, m) :
                 Head(BufferedAtStart(n)[i]).ts <= Head(BufferedAtStart(n)[j]).ts
        THEN Tail(BufferedAtStart(n)[i]) ELSE BufferedAtStart(n)[i]]

\* C28: when a sync-enabled method drops its earliest fronts in a pass and
\* every port of it is then non-empty with equal front timestamps, the method
\* is invoked in that same pass
C28_RecheckedInSamePass ==
    [][\A n \in Dispatchers : \A m \in ConnectedMethods(n) :
          /\ DispatchPassOf(n)
          /\ HasPacketOnAllPorts(n, m)
          /\ HeldBackBySync(n, m)
          /\ \A i \in PortSet(n, m) : AfterDrop(n, m)[i] # <<>>
          /\ \A i, j \in PortSet(n, m) :
                Head(AfterDrop(n, m)[i]).ts = Head(AfterDrop(n, m)[j]).ts
          => \E k \in 1..Len(pass_calls'[n]) : pass_calls'[n][k].m = m]_vars

\* C29: when the fronts of a sync-enabled method are misaligned in a pass, the
\* pass removes from the ports of the method exactly the fronts that carry the
\* minimum front timestamp, and leaves the buffer of every port of another
\* method as it was unless that method was itself invoked or misaligned
C29_OnlyEarliestFrontsDropped ==
    [][\A n \in Dispatchers : \A m \in ConnectedMethods(n) :
          /\ DispatchPassOf(n)
          /\ HasPacketOnAllPorts(n, m)
          /\ HeldBackBySync(n, m)
          => /\ \A i \in PortSet(n, m) : port_buffers'[n][i] = AfterDrop(n, m)[i]
             /\ \A i \in 1..Len(upstreams[n]) :
                   /\ i \notin PortSet(n, m)
                   /\ ~(/\ HasPacketOnAllPorts(n, upstreams[n][i].method_id)
                         /\ HeldBackBySync(n, upstreams[n][i].method_id))
                   /\ \A k \in 1..Len(pass_calls'[n]) :
                         pass_calls'[n][k].m # upstreams[n][i].method_id
                   => port_buffers'[n][i] = BufferedAtStart(n)[i]]_vars

\* a sync drop has hit one port of compute_ratio while its other port keeps
\* its later front, in a pass that went on to invoke forward on its own port
C29_Witness ==
    /\ Len(upstreams["d"]) = 3
    /\ \E i, j \in PortSet("d", MethodId("compute_ratio")) :
          /\ sync_dropped["d"][i]
          /\ ~sync_dropped["d"][j]
          /\ port_buffers["d"][j] # <<>>
    /\ \E k \in 1..Len(pass_calls["d"]) : pass_calls["d"][k].m = ID_FORWARD

----------------------------------------------------------------------------
(* The methods after a failed one                                          *)

\* C30: when the argument conversion of a method fails during a dispatch
\* pass, only that method is skipped: the pass still attempts every method of
\* the method order, and every other method that is due (connected on as many
\* ports as it has arguments, a packet on each, not held back by sync) is
\* invoked in that same pass
C30_OnlyFailedMethodSkipped ==
    [][\A n \in Dispatchers :
          DispatchPassOf(n) /\ PassFails(n) =>
              /\ attempts'[n] = EffectiveMethodOrder(method_order[n])
              /\ \A m \in ConnectedMethods(n) \cap DOMAIN method_registry(cls[n]) :
                    /\ Len(PortsForMethod(upstreams[n], m)) = Len(method_registry(cls[n])[m].args)
                    /\ HasPacketOnAllPorts(n, m)
                    /\ ~HeldBackBySync(n, m)
                    /\ ~Mistyped(n, m)
                    => \E k \in 1..Len(pass_calls'[n]) : pass_calls'[n][k].m = m]_vars

----------------------------------------------------------------------------
(* The embedder API outside a run: invoke on a TestNode t, and the calls   *)
(* that write and read the process-global registries.                      *)

\* node.invoke(method_id, inputs): BaseNode::invoke
Invoke(n, m, inputs) ==
    /\ pc = "idle"
    /\ \E r \in {invoke(cls[n], m, priv[n], inputs)} :
          /\ priv' = [priv EXCEPT ![n] = r.priv]
          /\ raised' = IF r.what = "" THEN "" ELSE "runtime_error"
    /\ api_call' = [op |-> "invoke", nodes |-> <<n, m, inputs>>]
    /\ UNCHANGED <<cls, upstreams, port_buffers, method_configs, method_order,
                   method_order_customized, output_packet, graphVars, execVars, histVars,
                   opened, life_calls, globalVars>>

\* NodeRegistry::Register(name, creator): "creators_[name] = creator"
RegisterNode(name, creator) ==
    /\ pc = "idle"
    /\ registries' = [registries EXCEPT !.factories =
                         [k \in DOMAIN @ \cup {name} |-> IF k = name THEN creator ELSE @[k]]]
    /\ raised' = ""
    /\ api_call' = [op |-> "Register", nodes |-> <<name, creator>>]
    /\ UNCHANGED <<nodeVars, graphVars, execVars, histVars, opened, life_calls, taskflow>>

\* TypeConverterRegistry::register_converter<From, To>(converter):
\* "converters_[key] = ..."
RegisterConverter(from, to, converter) ==
    /\ pc = "idle"
    /\ registries' = [registries EXCEPT !.converters =
                         [k \in DOMAIN @ \cup {<<from, to>>} |->
                             IF k = <<from, to>> THEN converter ELSE @[k]]]
    /\ raised' = ""
    /\ api_call' = [op |-> "register_converter", nodes |-> <<from, to, converter>>]
    /\ UNCHANGED <<nodeVars, graphVars, execVars, histVars, opened, life_calls, taskflow>>

\* RegisterTupleType<TupleT>() for a tuple type of size elements: false is
\* returned and nothing is written when the type is registered already
RegisterTupleType(type, size) ==
    /\ pc = "idle"
    /\ registries' = IF type \in DOMAIN registries.tuples THEN registries
                     ELSE [registries EXCEPT !.tuples =
                              [k \in DOMAIN @ \cup {type} |-> IF k = type THEN size ELSE @[k]]]
    /\ raised' = ""
    /\ api_call' = [op |-> "RegisterTupleType",
                    nodes |-> <<type, type \notin DOMAIN registries.tuples>>]
    /\ UNCHANGED <<nodeVars, graphVars, execVars, histVars, opened, life_calls, taskflow>>

\* create_tuple_get_node(tuple_type, index): std::runtime_error for a type
\* that is not registered and for an index out of range, otherwise the node
\* made by the factory of the entry (it is not added to a graph here)
CreateTupleGetNode(type, index) ==
    /\ pc = "idle"
    /\ raised' = IF type \notin DOMAIN registries.tuples THEN "runtime_error"
                 ELSE IF index >= registries.tuples[type] THEN "runtime_error"
                 ELSE ""
    /\ api_call' = [op |-> "create_tuple_get_node",
                    nodes |-> <<type, index, IF raised' = "" THEN "TupleGetNode" ELSE "">>]
    /\ UNCHANGED <<nodeVars, graphVars, execVars, histVars, opened, life_calls, globalVars>>

\* get_tuple_size(tuple_type): 0 for a type that is not registered
GetTupleSize(type) ==
    /\ pc = "idle"
    /\ raised' = ""
    /\ api_call' = [op |-> "get_tuple_size",
                    nodes |-> <<type, IF type \in DOMAIN registries.tuples
                                      THEN registries.tuples[type] ELSE 0>>]
    /\ UNCHANGED <<nodeVars, graphVars, execVars, histVars, opened, life_calls, globalVars>>

InitApi ==
    Constructed([n \in {"t"} |-> "TestNode"], [n \in {"t"} |-> Fields], <<>>,
                [n \in {"t"} |-> NoConfig], FALSE, FALSE)

\* the tuple types of the program and their sizes
TupleTypes == [k \in {"tuple<int,string>", "tuple<int,int,int>"} |->
                  IF k = "tuple<int,string>" THEN 2 ELSE 3]

\* invoke is called with packets out of the values of the test, up to one
\* more than add takes
NextApi ==
    \/ \E m \in DOMAIN method_registry("TestNode"),
          inputs \in UNION {[1..k -> {IntPkt(10, 0), IntPkt(20, 0), StrPkt("wrong", 0)}] :
                               k \in 0..(Len(method_registry("TestNode")["add"].args) + 1)} :
          Invoke("t", m, inputs)
    \/ \E name \in {"MultiplyBy", "Custom"}, creator \in {"MultiplyBy", "Custom"} :
          RegisterNode(name, creator)
    \/ \E converter \in {"static_cast", "rounding"} :
          RegisterConverter("int", "double", converter)
    \/ \E type \in DOMAIN TupleTypes : RegisterTupleType(type, TupleTypes[type])
    \/ \E type \in DOMAIN TupleTypes, index \in 0..TupleTypes["tuple<int,int,int>"] :
          CreateTupleGetNode(type, index)
    \/ \E type \in DOMAIN TupleTypes : GetTupleSize(type)

SpecApi == InitApi /\ [][NextApi]_vars

\* C23: for a tuple type that has not been registered, create_tuple_get_node
\* and get_tuple_size both fail with an error and return neither a node nor
\* a size
C23_UnregisteredTupleFails ==
    [][\A type \in DOMAIN TupleTypes :
          /\ type \notin DOMAIN registries.tuples
          /\ \/ GetTupleSize(type)
             \/ \E index \in 0..TupleTypes["tuple<int,int,int>"] :
                   CreateTupleGetNode(type, index)
          => raised' # ""]_vars

\* C24: an invoker called with the wrong number of packets, or with a packet
\* whose payload type differs from the declared argument type at its
\* position, raises an error and leaves the fields of the node as they were
C24_BadArgumentsLeaveNodeUnchanged ==
    [][\A m \in DOMAIN method_registry("TestNode") :
          /\ api_call' # api_call
          /\ api_call'.op = "invoke"
          /\ api_call'.nodes[2] = m
          /\ \/ Len(api_call'.nodes[3]) # Len(method_registry("TestNode")[m].args)
             \/ \E k \in 1..Len(api_call'.nodes[3]) :
                   api_call'.nodes[3][k].t # method_registry("TestNode")[m].args[k]
          => raised' = "runtime_error" /\ priv' = priv]_vars

\* Test 4 after set_val(10): add was called with a string and an int, the
\* error was raised and val_ is still 10
C24_Witness ==
    /\ api_call = [op |-> "invoke",
                   nodes |-> <<"t", "add", <<StrPkt("wrong", 0), IntPkt(20, 0)>>>>]
    /\ raised = "runtime_error"
    /\ priv["t"].val_ = 10

\* C25: an entry of the converter registry, the tuple registry or the node
\* factory registry, once registered under a key, stays under that key with
\* the value it was registered with
C25_RegistriesWriteOnce ==
    [][/\ \A k \in DOMAIN registries.converters :
             k \in DOMAIN registries'.converters
             /\ registries'.converters[k] = registries.converters[k]
       /\ \A k \in DOMAIN registries.tuples :
             k \in DOMAIN registries'.tuples /\ registries'.tuples[k] = registries.tuples[k]
       /\ \A k \in DOMAIN registries.factories :
             k \in DOMAIN registries'.factories
             /\ registries'.factories[k] = registries.factories[k]]_vars

----------------------------------------------------------------------------
(* The timestamp of a result                                               *)

\* the largest timestamp among the packets of one invocation
LargestStamp(inputs) ==
    CHOOSE t \in {inputs[k].ts : k \in DOMAIN inputs} :
        \A k \in DOMAIN inputs : inputs[k].ts <= t

\* C31: the packet a dispatching node writes to its output slot for an
\* invocation with one or more inputs carries the maximum of the timestamps
\* of the packets that invocation consumed
C31_StampedWithMaxInput ==
    \A n \in Dispatchers :
        \A k \in 1..Len(pass_calls[n]) :
            pass_calls[n][k].wrote /\ pass_calls[n][k].args # <<>> =>
                pass_calls[n][k].ret.ts = LargestStamp(pass_calls[n][k].args)

----------------------------------------------------------------------------
(* The arguments of an invocation                                          *)

\* the j-th port of n bound to method m, counting in connection order
NthPortOf(n, m, j) ==
    CHOOSE i \in PortSet(n, m) : Cardinality({h \in PortSet(n, m) : h < i}) = j - 1

\* C32: every invocation a dispatch pass makes receives exactly one packet
\* from each port bound to the method, argument j being the front of the
\* j-th of those ports in connection order; the packet leaves its buffer,
\* the packets behind it keep their order, and a method is invoked once in
\* a pass, so no packet reaches two invocations
C32_OneFrontPerPortInOrder ==
    [][\A n \in Dispatchers :
          DispatchPassOf(n) =>
              \A k \in 1..Len(pass_calls'[n]) :
                  /\ Len(pass_calls'[n][k].args) = Cardinality(PortSet(n, pass_calls'[n][k].m))
                  /\ \A j \in 1..Len(pass_calls'[n][k].args) :
                        /\ BufferedAtStart(n)[NthPortOf(n, pass_calls'[n][k].m, j)] # <<>>
                        /\ pass_calls'[n][k].args[j] =
                               Head(BufferedAtStart(n)[NthPortOf(n, pass_calls'[n][k].m, j)])
                        /\ port_buffers'[n][NthPortOf(n, pass_calls'[n][k].m, j)] =
                               Tail(BufferedAtStart(n)[NthPortOf(n, pass_calls'[n][k].m, j)])
                  /\ \A h \in 1..Len(pass_calls'[n]) :
                        pass_calls'[n][h].m = pass_calls'[n][k].m => h = k]_vars

\* compute_ratio has been invoked on the fronts of its two ports, which
\* differ, while a packet waited behind the front of its first port
C32_Witness ==
    /\ "d" \in Nodes
    /\ \E k \in 1..Len(pass_calls["d"]) :
          /\ pass_calls["d"][k].m = MethodId("compute_ratio")
          /\ pass_calls["d"][k].args[1] # pass_calls["d"][k].args[2]
    /\ \E i \in PortSet("d", MethodId("compute_ratio")) : port_buffers["d"][i] # <<>>

----------------------------------------------------------------------------
(* A source with a connected control method: feeder f into set_step of the *)
(* source t, whose output a MultiplyBy k consumes.                         *)

InitSource ==
    \E stops \in BOOLEAN :
        Assembled([f |-> "Feeder", t |-> "SteppedSource", k |-> "MultiplyBy"],
                  [f |-> NewFeeder(<<>>, {IntPkt(1, 0), IntPkt(2, 0)}, stops),
                   t |-> NewNumberSource(0, 0, 1), k |-> NewMultiplyBy(2)],
                  <<Conn("t", "f", "set_step"), Conn("k", "t", "")>>,
                  [n \in {"f", "t", "k"} |-> NoConfig], FALSE)

SpecSource == InitSource /\ [][NextRun]_vars

Sources == {n \in Nodes : IsSource(cls[n])}

\* C33: a source node runs the dispatch procedure in each pass: a control
\* method of the source that is connected on as many ports as it has
\* arguments, each holding a packet once the upstream's output is taken in,
\* is invoked in that pass, and the source's forward is called as well
C33_SourceDispatchesControlMethods ==
    [][\A n \in Sources : \A m \in ConnectedMethods(n) \cap DOMAIN method_registry(cls[n]) :
          /\ DispatchPassOf(n)
          /\ m # ID_FORWARD
          /\ Len(PortsForMethod(upstreams[n], m)) = Len(method_registry(cls[n])[m].args)
          /\ HasPacketOnAllPorts(n, m)
          /\ ~HeldBackBySync(n, m)
          => /\ \E k \in 1..Len(pass_calls'[n]) : pass_calls'[n][k].m = m
             /\ \E k \in 1..Len(pass_calls'[n]) : pass_calls'[n][k].m = ID_FORWARD]_vars

----------------------------------------------------------------------------
(* Readers and writers of an output slot                                   *)

\* build and connect have run for every node of the graph
FullyAssembled == tasks = Nodes /\ taskflow.connected = Nodes

\* the task of a node and the task of one of its upstreams are never ready
\* to run at the same time, and a node's task of a pass has run only if the
\* upstream's task of that pass has
ReadAfterWriteOfThePass ==
    pc = "pass" /\ FullyAssembled =>
        \A n \in Nodes : \A u \in UpstreamNodes(n) :
            /\ ~(Runnable(n) /\ Runnable(u))
            /\ n \in done => u \in done

\* a pass starts only when no task of the pass before it is unfinished
NextPassAfterEveryTask ==
    pc = "check" /\ pc' = "pass" /\ FullyAssembled => done \in {{}, tasks}

\* C34: once build and connect have run for every node, no task reads an
\* output slot while another task writes it: in each pass a downstream task
\* reads the slot of its upstream after the upstream's task of that pass has
\* finished, and the upstream's task of the next pass starts only when every
\* task of the pass, the reader included, has finished
C34_SlotReadBetweenWrites ==
    []ReadAfterWriteOfThePass /\ [][NextPassAfterEveryTask]_vars

\* after a reset and a rebuild, the feeder's task of the second pass has
\* written its slot and the reader of that slot has not run yet
C34_Witness ==
    /\ pc = "pass"
    /\ FullyAssembled
    /\ taskflow.tasks = Cardinality(Nodes)
    /\ api_call.op = "connect"
    /\ passes >= 2
    /\ "f" \in done
    /\ Runnable("s")
    /\ ~Runnable("m")

----------------------------------------------------------------------------
(* The barrier: feeders a (int) and b (string) into bar, a                 *)
(* SyncBarrier<int, std::string>, whose tuples g takes apart.              *)

\* a feed with the given timestamps; 0 stands for a pass without a packet
GappedFeed(feed) == [k \in 1..Len(feed) |-> IF feed[k].ts = 0 THEN Empty ELSE feed[k]]

BarrierTolerances == {0, 5, 10}

InitBarrier ==
    \E sa \in {<<10, 20, 30>>, <<10, 20>>, <<20, 30>>},
       sb \in {<<15, 20, 40>>, <<0, 0, 40>>, <<20, 40>>},
       tolerance_ns \in BarrierTolerances,
       mistyped \in BOOLEAN :
        Assembled([a |-> "Feeder", b |-> "Feeder", bar |-> "SyncBarrier", g |-> "TupleGet0"],
                  [a |-> NewFeeder(IntFeed(sa), {}, TRUE),
                   b |-> NewFeeder(GappedFeed(IF mistyped THEN IntFeed(sb) ELSE StrFeed(sb)),
                                   {}, FALSE),
                   bar |-> NewSyncBarrier(2, tolerance_ns), g |-> Fields],
                  <<Conn("bar", "a", ""), Conn("bar", "b", ""), Conn("g", "bar", "")>>,
                  [n \in {"a", "b", "bar", "g"} |-> NoConfig], FALSE)

SpecBarrier == InitBarrier /\ [][NextRun]_vars

\* the buffers of the barrier once the pass has taken in the upstream outputs
BarrierBuffered(n) ==
    SyncBarrier_BufferInputs(upstreams[n], priv[n].buffers_, output_packet)

\* the packet of buffer i that is its front once skip packets have left it
FrontAfter(n, skip, i) == BarrierBuffered(n)[i][skip[i] + 1]

\* C35: a SyncBarrier emits a tuple in a pass only when every input buffer
\* is non-empty and the front timestamps of all buffers differ by at most
\* the tolerance; the tuple is built from exactly those fronts, which leave
\* their buffers, and carries the largest of their timestamps. The fronts
\* are those left once the barrier has discarded skip[i] earlier packets of
\* buffer i in the pass.
C35_BarrierEmitsAlignedFronts ==
    [][DispatchPassOf("bar") /\ output_packet'["bar"].has =>
          \E skip \in [1..2 -> 0..MaxPasses] :
              /\ \A i \in 1..2 : skip[i] < Len(BarrierBuffered("bar")[i])
              /\ \A i, j \in 1..2 :
                    FrontAfter("bar", skip, i).ts - FrontAfter("bar", skip, j).ts
                        <= priv["bar"].tolerance_ns_
              /\ output_packet'["bar"].t = "tuple"
              /\ output_packet'["bar"].i = FrontAfter("bar", skip, 1).i
              /\ output_packet'["bar"].s = FrontAfter("bar", skip, 2).s
              /\ \A i \in 1..2 : output_packet'["bar"].ts >= FrontAfter("bar", skip, i).ts
              /\ \E i \in 1..2 : output_packet'["bar"].ts = FrontAfter("bar", skip, i).ts
              /\ \A i \in 1..2 :
                    priv'["bar"].buffers_[i] =
                        SubSeq(BarrierBuffered("bar")[i], skip[i] + 2,
                               Len(BarrierBuffered("bar")[i]))]_vars

\* the barrier has emitted the fronts stamped 30 and 40 after discarding
\* two earlier packets of its first buffer in the same pass
C35_Witness ==
    /\ "bar" \in Nodes
    /\ cls["bar"] = "SyncBarrier"
    /\ "bar" \in done
    /\ priv["bar"].tolerance_ns_ = 10
    /\ output_packet["bar"] = TuplePkt(3, "s3", 40)
    /\ priv["bar"].buffers_ = <<<<>>, <<>>>>

----------------------------------------------------------------------------
(* An Open whose hook fails                                                *)

\* the ID_OPEN invocation of Open(n, args) raises an error other than a
\* missing method
OpenHookFails(n, args) ==
    invoke(cls[n], ID_OPEN, priv[n], args).what \notin {"", "Method not found in registry"}

\* C36: if the ID_OPEN invocation made by Open raises an error other than a
\* missing method, Open propagates the error and the node stays not opened;
\* the Open that follows on that node invokes ID_OPEN again
C36_FailedOpenStaysIdle ==
    [][\A n \in BaseNodes : \A args \in {<<>>, <<IntPkt(1, 0)>>} :
          /\ (Open(n, args) /\ ~opened[n] /\ OpenHookFails(n, args) =>
                 /\ raised' = "runtime_error"
                 /\ ~opened'[n]
                 /\ priv'[n] = priv[n])
          /\ (/\ api_call = [op |-> "Node::Open", nodes |-> <<n>>]
              /\ raised = "runtime_error"
              /\ Open(n, args)
              /\ ~OpenHookFails(n, args)
              /\ ID_OPEN \in DOMAIN method_registry(cls[n])
              => /\ life_calls' = <<[op |-> ID_OPEN, node |-> n, invoked |-> TRUE]>>
                 /\ opened'[n])]_vars

\* Open of the session with one argument too many has just failed
C36_Witness ==
    /\ api_call = [op |-> "Node::Open", nodes |-> <<"s">>]
    /\ raised = "runtime_error"
    /\ life_calls = <<[op |-> ID_OPEN, node |-> "s", invoked |-> FALSE]>>
    /\ ~opened["s"]
    /\ ~priv["s"].ready_

----------------------------------------------------------------------------
(* The arguments of a failed invocation                                    *)

\* the method whose invocation fails in the pass about to run: the first
\* mistyped method of the method order
FailingMethod(n) ==
    LET order == EffectiveMethodOrder(method_order[n])
        first == CHOOSE i \in 1..Len(order) :
                     Mistyped(n, order[i]) /\ \A h \in 1..(i - 1) : ~Mistyped(n, order[h])
    IN  order[first]

\* C37: when the invocation of a method fails during a dispatch pass, the
\* packets taken from the port buffers for that invocation are not put back:
\* after the pass each port of the method holds what was behind its front,
\* and the method was not run on them
C37_FailedArgumentsAreLost ==
    [][\A n \in Dispatchers :
          DispatchPassOf(n) /\ PassFails(n) =>
              /\ \A i \in PortSet(n, FailingMethod(n)) :
                    port_buffers'[n][i] = Tail(BufferedAtStart(n)[i])
              /\ \A k \in 1..Len(pass_calls'[n]) : pass_calls'[n][k].m # FailingMethod(n)]_vars

\* the recorder has taken the string of fb for right(int): the pass failed
\* and the port of right is empty
C37_Witness ==
    /\ "r" \in Nodes
    /\ pc = "pass"
    /\ "r" \in done
    /\ output_packet["fb"].has
    /\ output_packet["fb"].t = "string"
    /\ attempts["r"] = <<MethodId("left"), MethodId("right")>>
    /\ port_buffers["r"][2] = <<>>
    /\ output_packet["r"] = Empty

----------------------------------------------------------------------------
(* The backlog of a port                                                   *)

\* port i of n holds more than one packet and its upstream has emitted a
\* packet in the pass
BackloggedAndFed(n, i) ==
    /\ i <= Len(port_buffers[n])
    /\ Len(port_buffers[n][i]) > 1
    /\ output_packet[upstreams[n][i].node].has

\* the queue limit of the method of port i does not trim the arriving packet
NotTrimmed(n, i) ==
    \/ GetMethodConfig(method_configs[n], upstreams[n][i].method_id).max_queue = 0
    \/ Len(port_buffers[n][i]) <
           GetMethodConfig(method_configs[n], upstreams[n][i].method_id).max_queue

\* C38 as stated: a port that holds more than one packet at the start of a
\* pass is not empty after the pass if its upstream emitted a packet in it
C38_BacklogNeverEmpties ==
    [][\A n \in Dispatchers : \A i \in 1..Len(upstreams[n]) :
          DispatchPassOf(n) /\ BackloggedAndFed(n, i) => port_buffers'[n][i] # <<>>]_vars

\* C38: in one dispatch pass each method is invoked at most once and an
\* invocation removes exactly one packet from each of its ports, so a port
\* that holds more than one packet at the start of a pass, whose upstream
\* emits a packet in the pass and whose queue limit does not trim that
\* packet, holds at least as many packets after the pass and is not empty
C38_BacklogKeptUnlessTrimmed ==
    [][\A n \in Dispatchers :
          DispatchPassOf(n) =>
              /\ \A k, h \in 1..Len(pass_calls'[n]) :
                    pass_calls'[n][k].m = pass_calls'[n][h].m => k = h
              /\ \A i \in 1..Len(upstreams[n]) :
                    BackloggedAndFed(n, i) /\ NotTrimmed(n, i) =>
                        /\ Len(port_buffers'[n][i]) >= Len(port_buffers[n][i])
                        /\ port_buffers'[n][i] # <<>>
                        /\ Len(port_buffers'[n][i]) >= Len(BufferedAtStart(n)[i]) - 1]_vars

\* compute_ratio has been invoked in a pass that found two packets on one
\* of its ports and took in a third: two packets are left on that port
C38_Witness ==
    /\ "d" \in Nodes
    /\ pc = "pass"
    /\ "d" \in done
    /\ GetMethodConfig(method_configs["d"], MethodId("compute_ratio")).max_queue = 0
    /\ \E k \in 1..Len(pass_calls["d"]) : pass_calls["d"][k].m = MethodId("compute_ratio")
    /\ \E i \in PortSet("d", MethodId("compute_ratio")) : Len(port_buffers["d"][i]) = 2

----------------------------------------------------------------------------
(* Stop outside a run: the embedder (or a hook it calls) stops a node      *)
(* while no run is in progress, and calls Executor::run again after a run  *)
(* has returned.                                                           *)

\* Node::Stop called on n outside Executor::run; the call is recorded with
\* the number of passes run so far
Stop(n) ==
    /\ pc = "idle"
    /\ keep_running' = IF n \in tasks THEN FALSE ELSE keep_running
    /\ api_call' = [op |-> "Node::Stop", nodes |-> <<n, passes>>]
    /\ UNCHANGED <<nodeVars, tasks, edges, execVars, histVars, opened, life_calls, raised,
                   globalVars>>

\* Executor::run has returned to the embedder, which may call it again
BackToEmbedder ==
    /\ pc = "returned"
    /\ pc' = "idle"
    /\ api_call' = [op |-> "", nodes |-> <<>>]
    /\ UNCHANGED <<nodeVars, graphVars, done, passes, clock, histVars, opened, life_calls,
                   raised, globalVars>>

NextStop == NextRun \/ BackToEmbedder \/ \E n \in Nodes : Stop(n)

SpecStop == InitLife /\ [][NextStop]_vars

\* C39: a Stop requested before Executor::run begins has no effect on that
\* run: on entry the flag is set back to keep-running, so the loop test that
\* follows the entry succeeds, and the run returns only after at least one
\* pass in which every task has run
C39_StopBeforeRunHasNoEffect ==
    api_call.op = "Node::Stop" =>
        /\ pc = "check" /\ passes = api_call.nodes[2] => keep_running
        /\ pc = "returned" => passes > api_call.nodes[2] /\ done = tasks

\* the second run has returned after one more pass although a node was
\* stopped between the two runs
C39_Witness ==
    /\ api_call = [op |-> "Node::Stop", nodes |-> <<"s", 1>>]
    /\ pc = "returned"
    /\ passes = 2

----------------------------------------------------------------------------
(* Aligned packets under sync: the two feeds of the sync graph carry       *)
(* strictly increasing positive timestamps and the queues are unbounded.   *)

\* the passes go on as scheduled: every enabled step of the run is taken
SpecSyncFair == SpecSync /\ WF_vars(NextRun)

SyncStamps == {10, 15, 20, 30, 40}

\* timestamp T occurs on both ports of the sync-enabled forward of join
OnEveryPort(T) ==
    /\ \E k \in 1..Len(priv["a"].feed) : priv["a"].feed[k].ts = T
    /\ \E k \in 1..Len(priv["b"].feed) : priv["b"].feed[k].ts = T

\* forward of join has been invoked with exactly the packets stamped T
InvokedAt(T) ==
    \E k \in 1..Len(calls["join"]) :
        /\ calls["join"][k].m = ID_FORWARD
        /\ Len(calls["join"][k].args) = 2
        /\ \A j \in 1..2 : calls["join"][k].args[j].ts = T
        /\ calls["join"][k].args[1] \in {priv["a"].feed[h] : h \in 1..Len(priv["a"].feed)}
        /\ calls["join"][k].args[2] \in {priv["b"].feed[h] : h \in 1..Len(priv["b"].feed)}

\* no packet discarded by a sync drop carries a timestamp found on every port
NoAlignedPacketDropped ==
    \A k \in 1..Len(drops["join"]) : ~OnEveryPort(drops["join"][k].ts)

\* C40: for a sync-enabled method with unbounded queues whose ports receive
\* strictly increasing positive timestamps, a sync drop never discards a
\* packet whose timestamp T occurs on every port of the method, and if no
\* node stops the run, so that the passes go on after the packets stamped T
\* have arrived, the method is eventually invoked with exactly those packets
C40_AlignedPacketsSurviveAndAreDelivered ==
    /\ []NoAlignedPacketDropped
    /\ \A T \in SyncStamps : (OnEveryPort(T) /\ ~priv["a"].stops) ~> InvokedAt(T)

\* the pair stamped 20 has been delivered after the earlier packets 10 and
\* 15 were discarded in two passes
C40_Witness ==
    /\ IsClaimedFeeds
    /\ ~priv["a"].stops
    /\ InvokedAt(20)
    /\ Len(drops["join"]) = 2
    /\ passes = 3

====
